---- MODULE Spec2Model ----
(***************************************************************************)
(* Verification model of the portfolio manager of oscmcompany/fund:        *)
(*   - the execution orchestrator of portfoliomanager/server.py together   *)
(*     with the broker wrapper of portfoliomanager/alpaca_client.py        *)
(*     (specification Spec), and                                           *)
(*   - the portfolio constructor of portfoliomanager/risk_management.py    *)
(*     (specification SpecPortfolio).                                      *)
(* Tickers are numbered 1..n; the number stands for a zero-padded ticker   *)
(* name, so that the order of the numbers is the order of the names.       *)
(***************************************************************************)
EXTENDS Integers, Sequences, FiniteSets, TLC

(***************************************************************************)
(* Bounds of the orchestrator model.                                       *)
(***************************************************************************)
MaxBuyingPower == 2
MaxDollarAmount == 2

\* two tickers: a cycle has up to two close and two open instructions
OrderTickers == {1, 2}
DollarAmounts == 1..MaxDollarAmount
BuyingPowers == 0..MaxBuyingPower

(***************************************************************************)
(* Program constants.                                                      *)
(***************************************************************************)
HTTP_NOT_FOUND == 404
HTTP_BAD_REQUEST == 400
http_not_found == 404
HTTP_200_OK == 200
HTTP_204_NO_CONTENT == 204
HTTP_207_MULTI_STATUS == 207
HTTP_500_INTERNAL_SERVER_ERROR == 500

(***************************************************************************)
(* Texts.  A text is a sequence of words; lower() maps every word to its   *)
(* lower-case form and "x in s" is the search of a contiguous run of       *)
(* words.                                                                  *)
(***************************************************************************)
LowerWord(w) ==
    CASE w = "Position" -> "position"
      [] w = "Not" -> "not"
      [] w = "Found" -> "found"
      [] w = "Insufficient" -> "insufficient"
      [] w = "Buying" -> "buying"
      [] w = "Power" -> "power"
      [] w = "BUYING_POWER" -> "buying_power"
      [] w = "Shortable" -> "shortable"
      [] OTHER -> w

Lower(s) == [i \in 1..Len(s) |-> LowerWord(s[i])]

Contains(s, pattern) ==
    \E i \in 0..(Len(s) - Len(pattern)) :
        \A j \in 1..Len(pattern) : s[i + j] = pattern[j]

(***************************************************************************)
(* alpaca.common.exceptions.APIError as the wrapper reads it: the          *)
(* attributes status_code, code and message (each possibly absent) and     *)
(* str(e).                                                                 *)
(***************************************************************************)
None == "None"

ApiError(status_code, code, message, text) ==
    [kind |-> "APIError", status_code |-> status_code, code |-> code,
     message |-> message, text |-> text]

OtherError(text) ==
    [kind |-> "Exception", status_code |-> 0, code |-> None,
     message |-> <<>>, text |-> text]

\* message = <<>> stands for an absent message attribute
CloseErrors ==
    { ApiError(404, None, <<"gone">>, <<"gone">>),
      ApiError(422, "position_not_found", <<"rejected">>, <<"rejected">>),
      ApiError(500, None, <<"Position", "Not", "Found", "for", "symbol">>,
               <<"Position", "Not", "Found", "for", "symbol">>),
      ApiError(0, None, <<>>, <<"position", "does", "not", "exist">>),
      ApiError(500, "internal", <<"server", "error">>, <<"server", "error">>),
      OtherError(<<"connection", "timed", "out">>) }

SubmitErrors ==
    { ApiError(403, None, <<"Insufficient", "Buying", "Power">>,
               <<"Insufficient", "Buying", "Power">>),
      ApiError(403, None, <<"BUYING_POWER", "exceeded">>,
               <<"BUYING_POWER", "exceeded">>),
      ApiError(422, None, <<"asset", "cannot", "be", "sold", "short">>,
               <<"asset", "cannot", "be", "sold", "short">>),
      ApiError(422, None, <<"asset", "is", "Not", "Shortable">>,
               <<"asset", "is", "Not", "Shortable">>),
      ApiError(500, "internal", <<"server", "error">>, <<"server", "error">>),
      OtherError(<<"connection", "timed", "out">>) }

\* the call returned
Returned ==
    [kind |-> "ok", status_code |-> 200, code |-> None, message |-> <<>>,
     text |-> <<>>]

(***************************************************************************)
(* AlpacaClient.close_position: TRUE when closed, FALSE when the broker    *)
(* reports that the position does not exist, the error otherwise.          *)
(***************************************************************************)
\* close_position without the check of the HTTP status
PositionNotFound_message_only(e) ==
    LET error_str == Lower(IF e.message # <<>> THEN e.message ELSE e.text)
    IN  \/ Contains(error_str, <<"position", "not", "found">>)
        \/ Contains(error_str, <<"position", "does", "not", "exist">>)

PositionNotFound(e) ==
    LET error_str == Lower(IF e.message # <<>> THEN e.message ELSE e.text)
    IN  \/ e.status_code = http_not_found
        \/ e.code \in {"position_not_found"}
        \/ Contains(error_str, <<"position", "not", "found">>)
        \/ Contains(error_str, <<"position", "does", "not", "exist">>)

close_position(outcome) ==
    IF outcome.kind = "ok" THEN [raised |-> FALSE, value |-> TRUE]
    ELSE IF outcome.kind = "APIError" /\ PositionNotFound(outcome)
         THEN [raised |-> FALSE, value |-> FALSE]
         ELSE [raised |-> TRUE, value |-> FALSE]

\* _close_single_position that reports an error of the broker as a skip
_close_single_position_error_skipped(position, outcome) ==
    LET r == close_position(outcome)
    IN  IF r.value
        THEN [ticker |-> position.ticker, action |-> "close",
              status |-> "success", reason |-> None, error |-> <<>>]
        ELSE [ticker |-> position.ticker, action |-> "close",
              status |-> "skipped", reason |-> "position_not_found",
              error |-> <<>>]

(***************************************************************************)
(* _close_single_position: the result of one close instruction.            *)
(***************************************************************************)
_close_single_position(position, outcome) ==
    LET r == close_position(outcome)
    IN  IF r.raised
        THEN [ticker |-> position.ticker, action |-> "close",
              status |-> "failed", reason |-> None, error |-> outcome.text]
        ELSE IF r.value
             THEN [ticker |-> position.ticker, action |-> "close",
                   status |-> "success", reason |-> None, error |-> <<>>]
             ELSE [ticker |-> position.ticker, action |-> "close",
                   status |-> "skipped", reason |-> "position_not_found",
                   error |-> <<>>]

(***************************************************************************)
(* AlpacaClient.open_position: the exception it raises, or "ok".           *)
(* broker.price is the quote (0 when neither ask nor bid is available),    *)
(* broker.submit the outcome of submit_order.                              *)
(***************************************************************************)
\* open_position that does not tell a rejected short sale from another error
open_position_shortable_unchecked(dollar_amount, broker) ==
    IF broker.price = 0 THEN "ValueError"
    ELSE IF dollar_amount <= 0 THEN "ValueError"
    ELSE IF broker.submit.kind = "ok" THEN "ok"
    ELSE IF broker.submit.kind = "APIError"
         THEN LET error_str == Lower(broker.submit.text)
              IN  IF \/ Contains(error_str, <<"insufficient", "buying", "power">>)
                     \/ Contains(error_str, <<"buying_power">>)
                  THEN "InsufficientBuyingPowerError"
                  ELSE "APIError"
         ELSE "Exception"

open_position(dollar_amount, broker) ==
    IF broker.price = 0 THEN "ValueError"
    ELSE IF dollar_amount <= 0 THEN "ValueError"
    ELSE IF broker.submit.kind = "ok" THEN "ok"
    ELSE IF broker.submit.kind = "APIError"
         THEN LET error_str == Lower(broker.submit.text)
              IN  IF \/ Contains(error_str, <<"insufficient", "buying", "power">>)
                     \/ Contains(error_str, <<"buying_power">>)
                  THEN "InsufficientBuyingPowerError"
                  ELSE IF \/ Contains(error_str, <<"cannot", "be", "sold", "short">>)
                          \/ Contains(error_str, <<"not", "shortable">>)
                       THEN "AssetNotShortableError"
                       ELSE "APIError"
         ELSE "Exception"

OpenResult(position, status, reason, error) ==
    [ticker |-> position.ticker, action |-> "open", side |-> position.side,
     dollar_amount |-> position.dollar_amount, status |-> status,
     reason |-> reason, error |-> error]

OpenErrorText(raised, broker) ==
    IF raised = "ValueError" THEN <<"no", "valid", "price", "or", "quantity">>
    ELSE broker.submit.text

(***************************************************************************)
(* _open_single_position: result, new remaining buying power, skip reason  *)
(* and whether alpaca_client.open_position was called.                     *)
(* broker.refresh is the buying power get_account reports after the open,  *)
(* or -1 when get_account fails.                                           *)
(***************************************************************************)
\* the comparison of server.py:151 turned around
insufficient_buying_power_reversed(dollar_amount, remaining) ==
    dollar_amount < remaining

\* no check of the remaining buying power before the open
insufficient_buying_power_unchecked(dollar_amount, remaining) ==
    FALSE

insufficient_buying_power(dollar_amount, remaining) ==
    dollar_amount > remaining

\* _open_single_position that keeps the remaining buying power as it was
\* when get_account fails after the open
_open_single_position_no_estimate(position, remaining_buying_power, broker) ==
    IF insufficient_buying_power(position.dollar_amount,
                                 remaining_buying_power)
    THEN [result |-> OpenResult(position, "skipped",
                                "insufficient_buying_power", <<>>),
          remaining |-> remaining_buying_power,
          skip_reason |-> "insufficient_buying_power",
          called |-> FALSE]
    ELSE LET raised == open_position(position.dollar_amount, broker)
         IN  CASE raised = "ok" ->
                    [result |-> OpenResult(position, "success", None, <<>>),
                     remaining |->
                        IF broker.refresh >= 0 THEN broker.refresh
                        ELSE remaining_buying_power,
                     skip_reason |-> None,
                     called |-> TRUE]
               [] raised = "InsufficientBuyingPowerError" ->
                    [result |-> OpenResult(position, "skipped",
                                           "insufficient_buying_power", <<>>),
                     remaining |-> remaining_buying_power,
                     skip_reason |-> "insufficient_buying_power",
                     called |-> TRUE]
               [] raised = "AssetNotShortableError" ->
                    [result |-> OpenResult(position, "skipped",
                                           "not_shortable", <<>>),
                     remaining |-> remaining_buying_power,
                     skip_reason |-> "not_shortable",
                     called |-> TRUE]
               [] OTHER ->
                    [result |-> OpenResult(position, "failed", None,
                                           OpenErrorText(raised, broker)),
                     remaining |-> remaining_buying_power,
                     skip_reason |-> None,
                     called |-> TRUE]

_open_single_position(position, remaining_buying_power, broker) ==
    IF insufficient_buying_power(position.dollar_amount,
                                 remaining_buying_power)
    THEN [result |-> OpenResult(position, "skipped",
                                "insufficient_buying_power", <<>>),
          remaining |-> remaining_buying_power,
          skip_reason |-> "insufficient_buying_power",
          called |-> FALSE]
    ELSE LET raised == open_position(position.dollar_amount, broker)
         IN  CASE raised = "ok" ->
                    [result |-> OpenResult(position, "success", None, <<>>),
                     remaining |->
                        IF broker.refresh >= 0 THEN broker.refresh
                        ELSE remaining_buying_power - position.dollar_amount,
                     skip_reason |-> None,
                     called |-> TRUE]
               [] raised = "InsufficientBuyingPowerError" ->
                    [result |-> OpenResult(position, "skipped",
                                           "insufficient_buying_power", <<>>),
                     remaining |-> remaining_buying_power,
                     skip_reason |-> "insufficient_buying_power",
                     called |-> TRUE]
               [] raised = "AssetNotShortableError" ->
                    [result |-> OpenResult(position, "skipped",
                                           "not_shortable", <<>>),
                     remaining |-> remaining_buying_power,
                     skip_reason |-> "not_shortable",
                     called |-> TRUE]
               [] OTHER ->
                    [result |-> OpenResult(position, "failed", None,
                                           OpenErrorText(raised, broker)),
                     remaining |-> remaining_buying_power,
                     skip_reason |-> None,
                     called |-> TRUE]

(***************************************************************************)
(* get_positions: one close instruction per prior ticker, one open         *)
(* instruction per row of the optimal portfolio.                           *)
(***************************************************************************)
get_positions(prior_tickers, portfolio) ==
    [close |-> [i \in 1..Len(prior_tickers) |-> [ticker |-> prior_tickers[i]]],
     open |-> [i \in 1..Len(portfolio) |->
                 [ticker |-> portfolio[i].ticker,
                  side |-> IF portfolio[i].side = "LONG" THEN "BUY" ELSE "SELL",
                  dollar_amount |-> portfolio[i].dollar_amount]]]

(***************************************************************************)
(* State of one portfolio manager process and of its collaborators.        *)
(***************************************************************************)
VARIABLES
    pc,                       \* position of create_portfolio
    account,                  \* AlpacaAccount read at the start of the cycle
    predictions_fetch,        \* "none", "ok" or "failed": get_current_predictions
    prior_fetch,              \* what the datamanager answered to the GET
    prior_portfolio_tickers,  \* result of get_prior_portfolio_tickers
    constructed,              \* what create_optimal_portfolio did: "none" (not
                              \* called), "portfolio", "insufficient", "error"
    optimal_portfolio,        \* rows of the target portfolio
    close_positions,          \* close instructions
    open_positions,           \* open instructions
    close_results,
    open_results,
    remaining_buying_power,
    broker_calls,             \* calls of close_position / open_position
    broker_answer,            \* what the broker answered to the latest call
    response,                 \* the Response of the cycle
    datamanager,              \* latest snapshot held by the datamanager
    snapshot_posts,           \* snapshots the datamanager stored this cycle
    opened_today              \* tickers the broker opened on the current day

serverVars == <<pc, account, predictions_fetch, prior_fetch,
                prior_portfolio_tickers, constructed, optimal_portfolio,
                close_positions, open_positions, close_results, open_results,
                remaining_buying_power, broker_calls, broker_answer,
                response, datamanager, snapshot_posts, opened_today>>

VARIABLES
    constructor_pc,       \* "idle", "input" or "done"
    current_predictions,  \* ranked predictions given to the constructor
    prior_portfolio,      \* classified prior portfolio given to the constructor
    maximum_capital,
    current_timestamp,
    constructed_portfolio \* what create_optimal_portfolio returned or raised

VARIABLES
    classifier_pc,        \* "idle", "input", "actions" or "done"
    prior_positions,      \* the prior snapshot given to the classifier
    prior_predictions,    \* predictions per original ticker and timestamp
    prior_equity_bars,    \* bars with log_daily_returns
    cycle_timestamp,      \* current_timestamp of the classifying cycle
    positions_with_action,\* result of add_portfolio_action_column
    classified_rows,      \* portfolio_with_actions before the rebalancing
    classified_portfolio  \* result of add_portfolio_performance_columns

classifierVars == <<classifier_pc, prior_positions, prior_predictions,
                    prior_equity_bars, cycle_timestamp, positions_with_action,
                    classified_rows, classified_portfolio>>

VARIABLES
    bars_pc,              \* "idle", "input" or "done"
    prior_bars,           \* the equity bars given to the returns step
    bars_with_returns     \* what the returns step returned or raised

barsVars == <<bars_pc, prior_bars, bars_with_returns>>

VARIABLES
    ranking_pc,           \* "idle", "input" or "done"
    raw_predictions,      \* predictions as the model service returns them
    ranked_predictions    \* result of add_predictions_zscore_ranked_columns

rankingVars == <<ranking_pc, raw_predictions, ranked_predictions>>

VARIABLES
    budget_pc,            \* "idle", "input" or "done"
    marketplace_state,    \* the MarketplaceState given to allocate_budgets
    budget_allocations    \* what allocate_budgets returned or raised

budgetVars == <<budget_pc, marketplace_state, budget_allocations>>

VARIABLES
    manager_pc,           \* "idle" or "ready"
    event_files,          \* .ralph/events: file name -> event
    state_file,           \* .ralph/marketplace.json: the cached state, or absent
    version_file,         \* .ralph/.state_version: a count, or -1 when absent
    last_call,            \* the method of the manager that ran last
    loaded_state          \* what the last load_state returned

managerVars ==
    <<manager_pc, event_files, state_file, version_file, last_call,
      loaded_state>>

portfolioVars == <<constructor_pc, current_predictions, prior_portfolio,
                   maximum_capital, current_timestamp,
                   constructed_portfolio>>

\* what an action of one component leaves alone
exceptServerVars ==
    <<portfolioVars, classifierVars, barsVars, rankingVars, budgetVars, managerVars>>
exceptPortfolioVars ==
    <<serverVars, classifierVars, barsVars, rankingVars, budgetVars, managerVars>>
exceptClassifierVars ==
    <<serverVars, portfolioVars, barsVars, rankingVars, budgetVars, managerVars>>
exceptBarsVars ==
    <<serverVars, portfolioVars, classifierVars, rankingVars, budgetVars, managerVars>>
exceptRankingVars ==
    <<serverVars, portfolioVars, classifierVars, barsVars, budgetVars,
      managerVars>>
exceptBudgetVars ==
    <<serverVars, portfolioVars, classifierVars, barsVars, rankingVars,
      managerVars>>
exceptManagerVars ==
    <<serverVars, portfolioVars, classifierVars, barsVars, rankingVars,
      budgetVars>>

NoAccount == [cash_amount |-> -1, buying_power |-> -1]
NoAnswer == [call |-> "none"]
NoResponse == [status_code |-> 0, headers |-> {}]
Respond(code) == [status_code |-> code, headers |-> {}]

\* the rows a target portfolio may hold for one ticker
PortfolioRows(t) ==
    {<<>>} \cup { <<[ticker |-> t, side |-> s, dollar_amount |-> d]>> :
                    s \in {"LONG", "SHORT"}, d \in DollarAmounts }

Least(S) == CHOOSE t \in S : \A u \in S : t <= u

RECURSIVE PortfoliosOver(_)
\* the portfolios over a set of tickers, sorted by ticker
PortfoliosOver(S) ==
    IF S = {} THEN {<<>>}
    ELSE { r \o p : r \in PortfolioRows(Least(S)),
                    p \in PortfoliosOver(S \ {Least(S)}) }

\* the constructor returns no empty portfolio
Portfolios == PortfoliosOver(OrderTickers) \ {<<>>}

\* the orders in which Series.unique() may list a set of tickers
RECURSIVE Orderings(_)
Orderings(S) ==
    IF S = {} THEN {<<>>}
    ELSE UNION { { <<t>> \o o : o \in Orderings(S \ {t}) } : t \in S }

TickersOf(rows) == { rows[i].ticker : i \in 1..Len(rows) }

ServerInit ==
    /\ pc = "idle"
    /\ account = NoAccount
    /\ predictions_fetch = "none"
    /\ prior_fetch = "none"
    /\ prior_portfolio_tickers = <<>>
    /\ constructed = "none"
    /\ optimal_portfolio = <<>>
    /\ close_positions = <<>>
    /\ open_positions = <<>>
    /\ close_results = <<>>
    /\ open_results = <<>>
    /\ remaining_buying_power = 0
    /\ broker_calls = <<>>
    /\ broker_answer = NoAnswer
    /\ response = NoResponse
    /\ datamanager = <<>>
    /\ snapshot_posts = 0
    /\ opened_today = {}

\* the cycle ends with the given response
Finish(r) ==
    /\ response' = r
    /\ pc' = "done"

(***************************************************************************)
(* POST /portfolio arrives: create_portfolio starts a cycle.               *)
(***************************************************************************)
StartCycle ==
    /\ pc \in {"idle", "done"}
    /\ pc' = "get_account"
    /\ account' = NoAccount
    /\ predictions_fetch' = "none"
    /\ prior_fetch' = "none"
    /\ prior_portfolio_tickers' = <<>>
    /\ constructed' = "none"
    /\ optimal_portfolio' = <<>>
    /\ close_positions' = <<>>
    /\ open_positions' = <<>>
    /\ close_results' = <<>>
    /\ open_results' = <<>>
    /\ remaining_buying_power' = 0
    /\ broker_calls' = <<>>
    /\ broker_answer' = NoAnswer
    /\ response' = NoResponse
    /\ snapshot_posts' = 0
    /\ UNCHANGED datamanager
    \* the request arrives on the day of the cycle before, or on a later day
    /\ opened_today' \in {opened_today, {}}
    /\ UNCHANGED exceptServerVars

(***************************************************************************)
(* _prepare_portfolio_data, first step: alpaca_client.get_account().       *)
(***************************************************************************)
GetAccount ==
    /\ pc = "get_account"
    /\ \/ \E bp \in BuyingPowers :
            /\ account' = [cash_amount |-> bp, buying_power |-> bp]
            /\ pc' = "get_predictions"
            /\ UNCHANGED response
       \/ /\ Finish(Respond(HTTP_500_INTERNAL_SERVER_ERROR))
          /\ UNCHANGED account
    /\ UNCHANGED <<predictions_fetch, prior_fetch, prior_portfolio_tickers,
                   constructed, optimal_portfolio, close_positions,
                   open_positions, close_results, open_results,
                   remaining_buying_power, broker_calls, broker_answer,
                   datamanager,
                   snapshot_posts>>
    /\ UNCHANGED opened_today
    /\ UNCHANGED exceptServerVars

(***************************************************************************)
(* _prepare_portfolio_data, second step: get_current_predictions().        *)
(***************************************************************************)
GetCurrentPredictions ==
    /\ pc = "get_predictions"
    /\ \/ /\ predictions_fetch' = "ok"
          /\ pc' = "get_prior"
          /\ UNCHANGED response
       \/ /\ predictions_fetch' = "failed"
          /\ Finish(Respond(HTTP_500_INTERNAL_SERVER_ERROR))
    /\ UNCHANGED <<account, prior_fetch, prior_portfolio_tickers,
                   constructed, optimal_portfolio, close_positions,
                   open_positions, close_results, open_results,
                   remaining_buying_power, broker_calls, broker_answer,
                   datamanager,
                   snapshot_posts>>
    /\ UNCHANGED opened_today
    /\ UNCHANGED exceptServerVars

(***************************************************************************)
(* get_prior_portfolio_tickers.  The answers of the datamanager to the GET:*)
(*   unavailable   requests.get raises (connection error, timeout)         *)
(*   not_found     status 404                                              *)
(*   error_status  another status >= 400                                   *)
(*   empty         status 200 with an empty body or "[]"                   *)
(*   unparsable    status 200 with a body that is not JSON                 *)
(*   ok            status 200 with the rows of the latest snapshot         *)
(* The value is the list of tickers, in the order Series.unique() gives.   *)
(***************************************************************************)
DatamanagerAnswer(kind, status_code, body) ==
    [kind |-> kind, status_code |-> status_code, body |-> body]

DatamanagerAnswers ==
    { DatamanagerAnswer("unavailable", 0, "none"),
      DatamanagerAnswer("error_status", 500, "error"),
      DatamanagerAnswer("unparsable", 200, "not json") }
        \cup (IF datamanager = <<>>
              THEN { DatamanagerAnswer("not_found", 404, "none"),
                     DatamanagerAnswer("empty", 200, "[]") }
              ELSE { DatamanagerAnswer("ok", 200, "rows") })

\* get_prior_portfolio_tickers that also swallows the connection error
get_prior_portfolio_tickers_swallow_all(answer, ordering) ==
    IF answer.kind = "ok" THEN [raised |-> FALSE, tickers |-> ordering]
    ELSE [raised |-> FALSE, tickers |-> <<>>]

get_prior_portfolio_tickers(answer, ordering) ==
    IF answer.kind = "unavailable" THEN [raised |-> TRUE, tickers |-> <<>>]
    ELSE IF answer.status_code = HTTP_NOT_FOUND
    THEN [raised |-> FALSE, tickers |-> <<>>]
    ELSE IF answer.status_code >= HTTP_BAD_REQUEST
    THEN [raised |-> FALSE, tickers |-> <<>>]
    ELSE IF answer.body \in {"", "[]"}
    THEN [raised |-> FALSE, tickers |-> <<>>]
    ELSE IF answer.body = "not json"
    THEN [raised |-> FALSE, tickers |-> <<>>]
    ELSE [raised |-> FALSE, tickers |-> ordering]

GetPriorPortfolioTickers ==
    /\ pc = "get_prior"
    /\ \E answer \in DatamanagerAnswers :
       \E ordering \in Orderings(TickersOf(datamanager)) :
          LET r == get_prior_portfolio_tickers(answer, ordering)
          IN  /\ prior_fetch' = answer.kind
              /\ IF r.raised
                 THEN /\ Finish(Respond(HTTP_500_INTERNAL_SERVER_ERROR))
                      /\ UNCHANGED prior_portfolio_tickers
                 ELSE /\ prior_portfolio_tickers' = r.tickers
                      /\ pc' = "get_optimal"
                      /\ UNCHANGED response
    /\ UNCHANGED <<account, predictions_fetch, constructed, optimal_portfolio,
                   close_positions, open_positions, close_results,
                   open_results, remaining_buying_power, broker_calls,
                   broker_answer, datamanager, snapshot_posts>>
    /\ UNCHANGED opened_today
    /\ UNCHANGED exceptServerVars

(***************************************************************************)
(* get_optimal_portfolio as _prepare_portfolio_data calls it:              *)
(* create_optimal_portfolio, schema validation, POST of the snapshot.      *)
(* construction is "insufficient" (InsufficientPredictionsError), "error"  *)
(* (another exception of the constructor or of the validation) or the      *)
(* portfolio; post is the answer of the datamanager to the POST:           *)
(*   stored        2xx, the snapshot is stored                             *)
(*   error_status  raise_for_status raises, nothing is stored              *)
(*   unavailable   requests.post raises, nothing is stored                 *)
(*   timeout       requests.post raises after the snapshot was stored      *)
(***************************************************************************)
ConstructionOutcomes ==
    {[kind |-> "insufficient", portfolio |-> <<>>],
     [kind |-> "error", portfolio |-> <<>>]}
        \cup { [kind |-> "portfolio", portfolio |-> p] : p \in Portfolios }
PostOutcomes == {"stored", "error_status", "unavailable", "timeout"}

\* get_optimal_portfolio that posts the snapshot before it looks at what the
\* constructor raised
get_optimal_portfolio_post_first(construction, post) ==
    IF construction.kind = "insufficient"
    THEN [raised |-> "InsufficientPredictionsError", posted |-> TRUE,
          stored |-> (post \in {"stored", "timeout"}), portfolio |-> <<>>]
    ELSE IF construction.kind = "error"
    THEN [raised |-> "Exception", posted |-> FALSE, stored |-> FALSE,
          portfolio |-> <<>>]
    ELSE IF post = "stored"
    THEN [raised |-> None, posted |-> TRUE, stored |-> TRUE,
          portfolio |-> construction.portfolio]
    ELSE [raised |-> "Exception", posted |-> TRUE,
          stored |-> (post = "timeout"), portfolio |-> <<>>]

\* get_optimal_portfolio without raise_for_status and without the failure of
\* the request: the portfolio is returned whatever became of the POST
get_optimal_portfolio_post_unchecked(construction, post) ==
    IF construction.kind = "insufficient"
    THEN [raised |-> "InsufficientPredictionsError", posted |-> FALSE,
          stored |-> FALSE, portfolio |-> <<>>]
    ELSE IF construction.kind = "error"
    THEN [raised |-> "Exception", posted |-> FALSE, stored |-> FALSE,
          portfolio |-> <<>>]
    ELSE [raised |-> None, posted |-> TRUE,
          stored |-> (post \in {"stored", "timeout"}),
          portfolio |-> construction.portfolio]

get_optimal_portfolio(construction, post) ==
    IF construction.kind = "insufficient"
    THEN [raised |-> "InsufficientPredictionsError", posted |-> FALSE,
          stored |-> FALSE, portfolio |-> <<>>]
    ELSE IF construction.kind = "error"
    THEN [raised |-> "Exception", posted |-> FALSE, stored |-> FALSE,
          portfolio |-> <<>>]
    ELSE IF post = "stored"
    THEN [raised |-> None, posted |-> TRUE, stored |-> TRUE,
          portfolio |-> construction.portfolio]
    ELSE [raised |-> "Exception", posted |-> TRUE,
          stored |-> (post = "timeout"), portfolio |-> <<>>]

GetOptimalPortfolio ==
    /\ pc = "get_optimal"
    /\ \E construction \in ConstructionOutcomes, post \in PostOutcomes :
          LET r == get_optimal_portfolio(construction, post)
          IN  /\ constructed' = construction.kind
              /\ IF r.stored
                 THEN /\ datamanager' = construction.portfolio
                      /\ snapshot_posts' = snapshot_posts + 1
                 ELSE UNCHANGED <<datamanager, snapshot_posts>>
              /\ CASE r.raised = None ->
                        /\ optimal_portfolio' = r.portfolio
                        /\ pc' = "get_positions"
                        /\ UNCHANGED response
                   [] r.raised = "InsufficientPredictionsError" ->
                        /\ Finish([status_code |-> HTTP_204_NO_CONTENT,
                                   headers |-> {<<"X-Portfolio-Status",
                                                  "insufficient-predictions">>}])
                        /\ UNCHANGED optimal_portfolio
                   [] OTHER ->
                        /\ Finish(Respond(HTTP_500_INTERNAL_SERVER_ERROR))
                        /\ UNCHANGED optimal_portfolio
    /\ UNCHANGED <<account, predictions_fetch, prior_fetch,
                   prior_portfolio_tickers, close_positions, open_positions,
                   close_results, open_results, remaining_buying_power,
                   broker_calls, broker_answer>>
    /\ UNCHANGED opened_today
    /\ UNCHANGED exceptServerVars

(***************************************************************************)
(* create_portfolio: get_positions(prior tickers, optimal portfolio).      *)
(***************************************************************************)
GetPositions ==
    /\ pc = "get_positions"
    /\ LET r == get_positions(prior_portfolio_tickers, optimal_portfolio)
       IN  /\ close_positions' = r.close
           /\ open_positions' = r.open
    /\ pc' = "closing"
    /\ UNCHANGED <<account, predictions_fetch, prior_fetch,
                   prior_portfolio_tickers, constructed, optimal_portfolio,
                   close_results, open_results, remaining_buying_power,
                   broker_calls, broker_answer, response, datamanager,
                   snapshot_posts>>
    /\ UNCHANGED opened_today
    /\ UNCHANGED exceptServerVars

(***************************************************************************)
(* _close_all_positions: one iteration, the next close instruction.        *)
(***************************************************************************)
CloseOutcomes == {Returned} \cup CloseErrors

ClosePosition ==
    /\ pc = "closing"
    /\ Len(close_results) < Len(close_positions)
    /\ LET position == close_positions[Len(close_results) + 1]
       IN  /\ \E outcome \in CloseOutcomes :
                /\ close_results' =
                     Append(close_results,
                            _close_single_position(position, outcome))
                /\ broker_answer' = [call |-> "close", outcome |-> outcome]
           /\ broker_calls' =
                Append(broker_calls,
                       [op |-> "close", ticker |-> position.ticker])
    /\ UNCHANGED <<pc, account, predictions_fetch, prior_fetch,
                   prior_portfolio_tickers, constructed, optimal_portfolio,
                   close_positions, open_positions, open_results,
                   remaining_buying_power, response, datamanager,
                   snapshot_posts>>
    /\ UNCHANGED opened_today
    /\ UNCHANGED exceptServerVars

\* create_portfolio that starts the opens without waiting for the closes
OpenAllPositions_before_closes ==
    /\ pc = "closing"
    /\ remaining_buying_power' = account.buying_power
    /\ pc' = "opening"
    /\ UNCHANGED <<account, predictions_fetch, prior_fetch,
                   prior_portfolio_tickers, constructed, optimal_portfolio,
                   close_positions, open_positions, close_results,
                   open_results, broker_calls, broker_answer, response,
                   datamanager, snapshot_posts>>
    /\ UNCHANGED opened_today
    /\ UNCHANGED exceptServerVars

(***************************************************************************)
(* create_portfolio: _close_all_positions has returned, _open_all_positions*)
(* starts with the buying power of the account.                            *)
(***************************************************************************)
OpenAllPositions ==
    /\ pc = "closing"
    /\ Len(close_results) = Len(close_positions)
    /\ remaining_buying_power' = account.buying_power
    /\ pc' = "opening"
    /\ UNCHANGED <<account, predictions_fetch, prior_fetch,
                   prior_portfolio_tickers, constructed, optimal_portfolio,
                   close_positions, open_positions, close_results,
                   open_results, broker_calls, broker_answer, response,
                   datamanager, snapshot_posts>>
    /\ UNCHANGED opened_today
    /\ UNCHANGED exceptServerVars

(***************************************************************************)
(* _open_all_positions: one iteration, the next open instruction.          *)
(***************************************************************************)
\* not reached: the call was not made
NotReached == [kind |-> "not reached", status_code |-> 0, code |-> None,
               message |-> <<>>, text |-> <<>>]

\* the answers to the calls of one open: the quote (0: none available),
\* submit_order, and the buying power of get_account (-1: it fails, -2: not
\* reached)
BrokerOutcomes ==
    {[price |-> 0, submit |-> NotReached, refresh |-> -2]}
        \cup { [price |-> 1, submit |-> e, refresh |-> -2] : e \in SubmitErrors }
        \cup { [price |-> 1, submit |-> Returned, refresh |-> r] :
                 r \in {-1} \cup BuyingPowers }

OpenPosition ==
    /\ pc = "opening"
    /\ Len(open_results) < Len(open_positions)
    /\ LET position == open_positions[Len(open_results) + 1]
       IN  \E broker \in BrokerOutcomes :
              LET r == _open_single_position(position,
                                             remaining_buying_power, broker)
              IN  /\ open_results' = Append(open_results, r.result)
                  /\ remaining_buying_power' = r.remaining
                  /\ broker_calls' =
                        IF r.called
                        THEN Append(broker_calls,
                                    [op |-> "open", ticker |-> position.ticker])
                        ELSE broker_calls
                  /\ broker_answer' =
                        IF r.called
                        THEN [call |-> "open", outcome |-> broker]
                        ELSE NoAnswer
                  /\ opened_today' =
                        IF r.result.status = "success"
                        THEN opened_today \cup {position.ticker}
                        ELSE opened_today
    /\ UNCHANGED <<pc, account, predictions_fetch, prior_fetch,
                   prior_portfolio_tickers, constructed, optimal_portfolio,
                   close_positions, open_positions, close_results, response,
                   datamanager, snapshot_posts>>
    /\ UNCHANGED exceptServerVars

(***************************************************************************)
(* create_portfolio, the end: 207 when a result is failed, 200 otherwise.  *)
(***************************************************************************)
all_results == close_results \o open_results

\* failed_trades that also counts the skipped instructions
failed_trades_with_skipped ==
    { i \in 1..Len(all_results) :
        all_results[i].status \in {"failed", "skipped"} }

failed_trades ==
    { i \in 1..Len(all_results) : all_results[i].status = "failed" }

CycleStatus(failed) ==
    IF failed # {} THEN HTTP_207_MULTI_STATUS ELSE HTTP_200_OK

ReturnResponse ==
    /\ pc = "opening"
    /\ Len(open_results) = Len(open_positions)
    /\ Finish(Respond(CycleStatus(failed_trades)))
    /\ UNCHANGED <<account, predictions_fetch, prior_fetch,
                   prior_portfolio_tickers, constructed, optimal_portfolio,
                   close_positions, open_positions, close_results,
                   open_results, remaining_buying_power, broker_calls,
                   broker_answer, datamanager, snapshot_posts>>
    /\ UNCHANGED opened_today
    /\ UNCHANGED exceptServerVars

ServerNext ==
    \/ StartCycle
    \/ GetAccount
    \/ GetCurrentPredictions
    \/ GetPriorPortfolioTickers
    \/ GetOptimalPortfolio
    \/ GetPositions
    \/ ClosePosition
    \/ OpenAllPositions
    \/ OpenPosition
    \/ ReturnResponse

(***************************************************************************)
(* Dollar amounts of the constructor are exact fractions num/den in        *)
(* lowest terms (den > 0): the divisions of the code are not rounded.      *)
(***************************************************************************)
RECURSIVE Gcd(_, _)
Gcd(a, b) == IF b = 0 THEN a ELSE Gcd(b, a % b)

Abs(a) == IF a < 0 THEN -a ELSE a

Rat(n, d) ==
    LET g == Gcd(Abs(n), d)
    IN  IF n = 0 THEN [num |-> 0, den |-> 1]
        ELSE [num |-> n \div g, den |-> d \div g]

RatAdd(a, b) == Rat(a.num * b.den + b.num * a.den, a.den * b.den)
RatSub(a, b) == Rat(a.num * b.den - b.num * a.den, a.den * b.den)
RatDiv(a, k) == Rat(a.num, a.den * k)
RatLeq(a, b) == a.num * b.den <= b.num * a.den
RatMax(a, b) == IF RatLeq(a, b) THEN b ELSE a
Zero == Rat(0, 1)

RECURSIVE RatSum(_)
\* pl.sum("dollar_amount") over the rows
RatSum(rows) ==
    IF rows = <<>> THEN Zero
    ELSE RatAdd(rows[1].dollar_amount, RatSum(Tail(rows)))

(***************************************************************************)
(* Data frames are sequences of rows.                                      *)
(***************************************************************************)
\* DataFrame.filter is SelectSeq: the rows that satisfy the test, in order

Min(a, b) == IF a <= b THEN a ELSE b
Max(a, b) == IF a >= b THEN a ELSE b

\* DataFrame.head(n) and DataFrame.tail(n)
Head_(rows, n) == SubSeq(rows, 1, Min(n, Len(rows)))
Tail_(rows, n) == SubSeq(rows, Len(rows) - Min(n, Len(rows)) + 1, Len(rows))

\* the order of sort(["ticker", "side"]): "LONG" sorts before "SHORT"
TickerSideLeq(a, b) ==
    \/ a.ticker < b.ticker
    \/ a.ticker = b.ticker /\ (a.side = b.side \/ a.side = "LONG")

RECURSIVE InsertSorted(_, _)
InsertSorted(row, sorted) ==
    IF sorted = <<>> THEN <<row>>
    ELSE IF TickerSideLeq(sorted[1], row)
         THEN <<sorted[1]>> \o InsertSorted(row, Tail(sorted))
         ELSE <<row>> \o sorted

RECURSIVE SortTickerSide(_)
SortTickerSide(rows) ==
    IF rows = <<>> THEN <<>>
    ELSE InsertSorted(rows[Len(rows)],
                      SortTickerSide(SubSeq(rows, 1, Len(rows) - 1)))

(***************************************************************************)
(* risk_management.py, the portfolio constructor.                          *)
(* inter_quartile_range is counted in hundredths.                          *)
(***************************************************************************)
UNCERTAINTY_THRESHOLD == 10

\* _filter_positions that also carries the locked positions over
_filter_positions_locked_maintained(positions) ==
    IF Len(positions) = 0
    THEN [closed |-> <<>>, maintained |-> <<>>]
    ELSE [closed |->
            SelectSeq(positions, LAMBDA r : r.action = "CLOSE_POSITION"),
          maintained |->
            SelectSeq(positions,
                      LAMBDA r : r.action \in {"MAINTAIN_POSITION",
                                               "PDT_LOCKED"})]

_filter_positions(positions) ==
    IF Len(positions) = 0
    THEN [closed |-> <<>>, maintained |-> <<>>]
    ELSE [closed |->
            SelectSeq(positions, LAMBDA r : r.action = "CLOSE_POSITION"),
          maintained |->
            SelectSeq(positions, LAMBDA r : r.action = "MAINTAIN_POSITION")]

_filter_side_capital_amount(positions, side) ==
    LET filtered_positions == SelectSeq(positions, LAMBDA r : r.side = side)
    IN  IF Len(filtered_positions) = 0 THEN Zero
        ELSE RatSum(filtered_positions)

\* the message of the InsufficientPredictionsError: the counts it states
NoMessage == [long |-> -1, short |-> -1, maintained |-> -1]

\* _collect_portfolio_positions that refuses a portfolio of fewer than 20 rows
_collect_portfolio_positions_require_full(long_positions, short_positions, maintained_positions) ==
    LET portfolio_components ==
            long_positions \o short_positions \o maintained_positions
    IN  IF Len(portfolio_components) < 20
        THEN [raised |-> "InsufficientPredictionsError",
              message |-> [long |-> Len(long_positions),
                           short |-> Len(short_positions),
                           maintained |-> Len(maintained_positions)],
              portfolio |-> <<>>]
        ELSE [raised |-> None,
              message |-> NoMessage,
              portfolio |-> SortTickerSide(portfolio_components)]

_collect_portfolio_positions(long_positions, short_positions, maintained_positions) ==
    LET portfolio_components ==
            (IF Len(long_positions) > 0 THEN long_positions ELSE <<>>)
            \o (IF Len(short_positions) > 0 THEN short_positions ELSE <<>>)
            \o (IF Len(maintained_positions) > 0
                THEN maintained_positions ELSE <<>>)
        no_components ==
            /\ Len(long_positions) = 0
            /\ Len(short_positions) = 0
            /\ Len(maintained_positions) = 0
    IN  IF no_components
        THEN [raised |-> "InsufficientPredictionsError",
              message |-> [long |-> Len(long_positions),
                           short |-> Len(short_positions),
                           maintained |-> Len(maintained_positions)],
              portfolio |-> <<>>]
        ELSE [raised |-> None,
              message |-> NoMessage,
              portfolio |-> SortTickerSide(portfolio_components)]

high_uncertainty_tickers(predictions) ==
    { predictions[i].ticker :
        i \in { j \in 1..Len(predictions) :
                  predictions[j].inter_quartile_range > UNCERTAINTY_THRESHOLD } }

excluded_tickers(predictions, prior) ==
    high_uncertainty_tickers(predictions)
        \cup TickersOf(_filter_positions(prior).closed)
        \cup TickersOf(_filter_positions(prior).maintained)

available_predictions(predictions, prior) ==
    SelectSeq(predictions,
           LAMBDA r : r.ticker \notin excluded_tickers(predictions, prior))

\* the capital of a side without the halving
target_side_capital_whole(capital) == Rat(capital, 1)

target_side_capital(capital) == Rat(capital, 2)

\* available_side_capital that leaves the capital of the closed positions out
available_side_capital_without_closed(prior, capital, side) ==
    RatMax(Zero,
           RatSub(target_side_capital(capital),
                  _filter_side_capital_amount(
                      _filter_positions(prior).maintained, side)))

available_side_capital(prior, capital, side) ==
    RatMax(Zero,
           RatAdd(RatSub(target_side_capital(capital),
                         _filter_side_capital_amount(
                             _filter_positions(prior).maintained, side)),
                  _filter_side_capital_amount(
                      _filter_positions(prior).closed, side)))

maintained_count(prior, side) ==
    Len(SelectSeq(_filter_positions(prior).maintained, LAMBDA r : r.side = side))

new_positions_needed(prior, side) == Max(0, 10 - maintained_count(prior, side))

maximum_long_candidates(predictions, prior) ==
    Min(new_positions_needed(prior, "LONG"),
        Len(available_predictions(predictions, prior)) \div 2)

\* maximum_short_candidates that does not count what the LONG side took
maximum_short_candidates_of_all(predictions, prior) ==
    Min(new_positions_needed(prior, "SHORT"),
        Len(available_predictions(predictions, prior)))

maximum_short_candidates(predictions, prior) ==
    Min(new_positions_needed(prior, "SHORT"),
        Len(available_predictions(predictions, prior))
            - maximum_long_candidates(predictions, prior))

dollar_amount_per(side_capital, candidates) ==
    IF candidates > 0 THEN RatDiv(side_capital, candidates) ELSE Zero

NewPositions(candidates, timestamp, side, dollar_amount) ==
    [i \in 1..Len(candidates) |->
        [ticker |-> candidates[i].ticker, timestamp |-> timestamp,
         side |-> side, dollar_amount |-> dollar_amount,
         action |-> "OPEN_POSITION"]]

create_optimal_portfolio(predictions, prior, capital, timestamp) ==
    LET available == available_predictions(predictions, prior)
        long_count == maximum_long_candidates(predictions, prior)
        short_count == maximum_short_candidates(predictions, prior)
        long_candidates == Head_(available, long_count)
        short_candidates == Tail_(available, short_count)
        dollar_amount_per_long ==
            dollar_amount_per(available_side_capital(prior, capital, "LONG"),
                              long_count)
        dollar_amount_per_short ==
            dollar_amount_per(available_side_capital(prior, capital, "SHORT"),
                              short_count)
    IN  _collect_portfolio_positions(
            NewPositions(long_candidates, timestamp, "LONG",
                         dollar_amount_per_long),
            NewPositions(short_candidates, timestamp, "SHORT",
                         dollar_amount_per_short),
            _filter_positions(prior).maintained)

(***************************************************************************)
(* Inputs of the constructor.                                              *)
(***************************************************************************)
MaxPredictions == 22

BatchShapes == {"ascending", "descending", "paired"}

\* n predictions in rank order; the ranks in uncertain have a wide range
PredictionBatch(n, shape, uncertain) ==
    [i \in 1..n |->
        [ticker |-> IF shape = "ascending" THEN i ELSE n + 1 - i,
         composite_score |->
            IF shape = "paired" THEN (n - i) \div 2 ELSE n - i,
         inter_quartile_range |-> IF i \in uncertain THEN 50 ELSE 5]]

\* the order add_predictions_zscore_ranked_columns leaves: composite_score
\* descending, then inter_quartile_range ascending
IsRanked(predictions) ==
    \A i \in 1..(Len(predictions) - 1) :
        \/ predictions[i].composite_score > predictions[i + 1].composite_score
        \/ /\ predictions[i].composite_score = predictions[i + 1].composite_score
           /\ predictions[i].inter_quartile_range
                <= predictions[i + 1].inter_quartile_range

PredictionBatches ==
    { b \in { PredictionBatch(n, shape, uncertain) :
                n \in 0..MaxPredictions, shape \in BatchShapes,
                uncertain \in SUBSET {1, 2, MaxPredictions - 1} } :
        IsRanked(b) }

CurrentTimestamps == {120600}
Capitals == {1000, 10001}

PriorRows(t, now) ==
    {<<>>} \cup
    { <<[ticker |-> t,
         timestamp |-> IF a = "PDT_LOCKED" THEN now - 3600 ELSE now - 86400,
         side |-> s, dollar_amount |-> Rat(300, 1), action |-> a]>> :
        s \in {"LONG", "SHORT"},
        a \in {"CLOSE_POSITION", "MAINTAIN_POSITION", "UNSPECIFIED",
               "PDT_LOCKED"} }

\* classified prior portfolios over the tickers 1 and 2, sorted by ticker,
\* and prior portfolios with a LONG side of 10 or 11 maintained positions
\* of tickers that have no prediction
PriorPortfolios(now) ==
    { r1 \o r2 : r1 \in PriorRows(1, now), r2 \in PriorRows(2, now) }
        \cup { [i \in 1..n |->
                  [ticker |-> 30 + i, timestamp |-> now - 86400,
                   side |-> "LONG", dollar_amount |-> Rat(40, 1),
                   action |-> "MAINTAIN_POSITION"]] : n \in {10, 11} }

NoConstruction == [raised |-> None, message |-> NoMessage, portfolio |-> <<>>]

PortfolioIdle ==
    /\ constructor_pc = "idle"
    /\ current_predictions = <<>>
    /\ prior_portfolio = <<>>
    /\ maximum_capital = 0
    /\ current_timestamp = 0
    /\ constructed_portfolio = NoConstruction

PortfolioInit ==
    /\ constructor_pc = "input"
    /\ current_predictions \in PredictionBatches
    /\ current_timestamp \in CurrentTimestamps
    /\ prior_portfolio \in PriorPortfolios(current_timestamp)
    /\ maximum_capital \in Capitals
    /\ constructed_portfolio = NoConstruction

(***************************************************************************)
(* create_optimal_portfolio is applied to the inputs.                      *)
(***************************************************************************)
CreateOptimalPortfolio ==
    /\ constructor_pc = "input"
    /\ constructed_portfolio' =
          create_optimal_portfolio(current_predictions, prior_portfolio,
                                   maximum_capital, current_timestamp)
    /\ constructor_pc' = "done"
    /\ UNCHANGED <<current_predictions, prior_portfolio, maximum_capital,
                   current_timestamp>>
    /\ UNCHANGED exceptPortfolioVars

PortfolioNext ==
    \/ CreateOptimalPortfolio

(***************************************************************************)
(* risk_management.py, the lifecycle classifier.                           *)
(* A nullable value is a sequence: <<>> is null, <<v>> is the value v.     *)
(* Returns and thresholds are counted in thousandths, log returns in       *)
(* tenths.                                                                 *)
(***************************************************************************)
Null == <<>>

\* datetime.fromtimestamp(ts, tz=UTC).date(): the day number of a timestamp
Date(ts) == ts \div 86400

add_portfolio_action_column(portfolio, now) ==
    [i \in 1..Len(portfolio) |->
        [portfolio[i] EXCEPT !.action =
            IF Date(portfolio[i].timestamp) = Date(now)
            THEN "PDT_LOCKED" ELSE "UNSPECIFIED"]]

\* one row of the left join of the portfolio with the predictions
WithThresholds(row, lower, upper) ==
    [ticker |-> row.ticker, timestamp |-> row.timestamp, side |-> row.side,
     dollar_amount |-> row.dollar_amount, action |-> row.action,
     original_lower_threshold |-> lower, original_upper_threshold |-> upper]

\* the join on the ticker alone
PredictionsOf_ticker_only(row, predictions) ==
    SelectSeq(predictions, LAMBDA p : p.ticker = row.ticker)

PredictionsOf(row, predictions) ==
    SelectSeq(predictions,
              LAMBDA p : p.ticker = row.ticker /\ p.timestamp = row.timestamp)

RECURSIVE prior_portfolio_predictions(_, _)
\* prior_portfolio.join(prior_predictions, on=[ticker, timestamp], how=left)
prior_portfolio_predictions(portfolio, predictions) ==
    IF portfolio = <<>> THEN <<>>
    ELSE LET row == Head(portfolio)
             matches == PredictionsOf(row, predictions)
         IN  (IF matches = <<>>
              THEN <<WithThresholds(row, Null, Null)>>
              ELSE [i \in 1..Len(matches) |->
                      WithThresholds(row, <<matches[i].quantile_10>>,
                                     <<matches[i].quantile_90>>)])
             \o prior_portfolio_predictions(Tail(portfolio), predictions)

\* the bars of a position: its ticker, from its timestamp up to now
ticker_bars(row, bars, now) ==
    SelectSeq(bars, LAMBDA b : /\ b.ticker = row.ticker
                               /\ b.timestamp >= row.timestamp
                               /\ b.timestamp <= now)

RECURSIVE SumLogDailyReturns(_)
\* pl.col("log_daily_returns").sum(): nulls are skipped, no row gives 0
SumLogDailyReturns(rows) ==
    IF rows = <<>> THEN 0
    ELSE (IF Head(rows).log_daily_returns = Null THEN 0
          ELSE Head(rows).log_daily_returns[1])
         + SumLogDailyReturns(Tail(rows))

\* math.exp(l / 10) - 1 in thousandths, rounded
SimpleReturn(l) ==
    CASE l = -4 -> -330 [] l = -3 -> -259 [] l = -2 -> -181 [] l = -1 -> -95
      [] l = 0 -> 0
      [] l = 1 -> 105 [] l = 2 -> 221 [] l = 3 -> 350 [] l = 4 -> 492
      [] l = -5 -> -393 [] l = -6 -> -451 [] l = 5 -> 649 [] l = 6 -> 822
      [] l < -6 -> -500
      [] OTHER -> 1000

cumulative_simple_return(row, bars, now) ==
    SimpleReturn(SumLogDailyReturns(ticker_bars(row, bars, now)))

position_returns(rows, bars, now) ==
    [i \in 1..Len(rows) |->
        [ticker |-> rows[i].ticker, timestamp |-> rows[i].timestamp,
         cumulative_simple_return |->
            cumulative_simple_return(rows[i], bars, now)]]

RECURSIVE prior_portfolio_with_data(_, _)
\* prior_portfolio_predictions.join(returns, on=[ticker, timestamp], how=left)
prior_portfolio_with_data(rows, returns) ==
    IF rows = <<>> THEN <<>>
    ELSE LET row == Head(rows)
             matches == SelectSeq(returns,
                           LAMBDA r : /\ r.ticker = row.ticker
                                      /\ r.timestamp = row.timestamp)
         IN  [i \in 1..Len(matches) |->
                [ticker |-> row.ticker, timestamp |-> row.timestamp,
                 side |-> row.side, dollar_amount |-> row.dollar_amount,
                 action |-> row.action,
                 original_lower_threshold |-> row.original_lower_threshold,
                 original_upper_threshold |-> row.original_upper_threshold,
                 cumulative_simple_return |->
                    matches[i].cumulative_simple_return]]
             \o prior_portfolio_with_data(Tail(rows), returns)

\* a comparison with a nullable threshold is true only when it is not null
AtMost(value, threshold) == threshold # Null /\ value <= threshold[1]
AtLeast(value, threshold) == threshold # Null /\ value >= threshold[1]

\* the when/then chain with the maintain trigger tested before the close
\* trigger
ClassifiedAction_maintain_first(row) ==
    IF row.action = "PDT_LOCKED" THEN "PDT_LOCKED"
    ELSE IF \/ /\ row.side = "LONG"
               /\ AtLeast(row.cumulative_simple_return,
                          row.original_upper_threshold)
            \/ /\ row.side = "SHORT"
               /\ AtMost(row.cumulative_simple_return,
                         row.original_lower_threshold)
    THEN "MAINTAIN_POSITION"
    ELSE IF \/ /\ row.side = "LONG"
               /\ AtMost(row.cumulative_simple_return,
                         row.original_lower_threshold)
            \/ /\ row.side = "SHORT"
               /\ AtLeast(row.cumulative_simple_return,
                          row.original_upper_threshold)
    THEN "CLOSE_POSITION"
    ELSE "UNSPECIFIED"

\* the when/then chain of the classifier for one row
ClassifiedAction(row) ==
    IF row.action = "PDT_LOCKED" THEN "PDT_LOCKED"
    ELSE IF /\ row.action # "PDT_LOCKED"
            /\ \/ /\ row.side = "LONG"
                  /\ AtMost(row.cumulative_simple_return,
                            row.original_lower_threshold)
               \/ /\ row.side = "SHORT"
                  /\ AtLeast(row.cumulative_simple_return,
                             row.original_upper_threshold)
    THEN "CLOSE_POSITION"
    ELSE IF \/ /\ row.side = "LONG"
               /\ AtLeast(row.cumulative_simple_return,
                          row.original_upper_threshold)
            \/ /\ row.side = "SHORT"
               /\ AtMost(row.cumulative_simple_return,
                         row.original_lower_threshold)
    THEN "MAINTAIN_POSITION"
    ELSE "UNSPECIFIED"

portfolio_with_actions(rows) ==
    [i \in 1..Len(rows) |-> [rows[i] EXCEPT !.action = ClassifiedAction(rows[i])]]

closed_count(rows, side) ==
    Len(SelectSeq(rows, LAMBDA r : r.side = side /\ r.action = "CLOSE_POSITION"))

\* the eligible rows without the exclusion of the PDT locked ones
EligibleForRebalance_with_locked(rows, side) ==
    SelectSeq(rows, LAMBDA r : /\ r.side = side
                               /\ r.action # "CLOSE_POSITION")

\* the rows of a side that are neither being closed nor PDT locked
EligibleForRebalance(rows, side) ==
    SelectSeq(rows, LAMBDA r : /\ r.side = side
                               /\ r.action # "CLOSE_POSITION"
                               /\ r.action # "PDT_LOCKED")

\* the sort with the direction turned around
SortedByReturn_reversed(rows, descending) ==
    { [i \in 1..Len(rows) |-> rows[p[i]]] :
        p \in { q \in [1..Len(rows) -> 1..Len(rows)] :
                  /\ \A i, j \in 1..Len(rows) : i # j => q[i] # q[j]
                  /\ \A i \in 1..(Len(rows) - 1) :
                        IF descending
                        THEN rows[q[i]].cumulative_simple_return
                               <= rows[q[i + 1]].cumulative_simple_return
                        ELSE rows[q[i]].cumulative_simple_return
                               >= rows[q[i + 1]].cumulative_simple_return } }

\* the orders sort("cumulative_simple_return") may give the rows: every
\* arrangement that is sorted; rows with equal returns come in any order
SortedByReturn(rows, descending) ==
    { [i \in 1..Len(rows) |-> rows[p[i]]] :
        p \in { q \in [1..Len(rows) -> 1..Len(rows)] :
                  /\ \A i, j \in 1..Len(rows) : i # j => q[i] # q[j]
                  /\ \A i \in 1..(Len(rows) - 1) :
                        IF descending
                        THEN rows[q[i]].cumulative_simple_return
                               >= rows[q[i + 1]].cumulative_simple_return
                        ELSE rows[q[i]].cumulative_simple_return
                               <= rows[q[i + 1]].cumulative_simple_return } }

\* with_columns(when(ticker.is_in(tickers)).then(CLOSE_POSITION))
CloseTickers(rows, tickers) ==
    [i \in 1..Len(rows) |->
        IF rows[i].ticker \in tickers
        THEN [rows[i] EXCEPT !.action = "CLOSE_POSITION"]
        ELSE rows[i]]

\* the rebalancing step without the branch for more short closes
Rebalanced_longs_only(rows, best_shorts, best_longs) ==
    LET closed_long_count == closed_count(rows, "LONG")
        closed_short_count == closed_count(rows, "SHORT")
    IN  IF closed_long_count > closed_short_count
        THEN CloseTickers(rows,
                 TickersOf(Head_(best_shorts,
                                 closed_long_count - closed_short_count)))
        ELSE rows

\* the rebalancing step; best is the sorted frame of the eligible rows of the
\* side that has fewer closes
Rebalanced(rows, best_shorts, best_longs) ==
    LET closed_long_count == closed_count(rows, "LONG")
        closed_short_count == closed_count(rows, "SHORT")
    IN  IF closed_long_count > closed_short_count
        THEN CloseTickers(rows,
                 TickersOf(Head_(best_shorts,
                                 closed_long_count - closed_short_count)))
        ELSE IF closed_short_count > closed_long_count
        THEN CloseTickers(rows,
                 TickersOf(Head_(best_longs,
                                 closed_short_count - closed_long_count)))
        ELSE rows

\* drop of the columns the classifier added
DropPerformanceColumns(rows) ==
    [i \in 1..Len(rows) |->
        [ticker |-> rows[i].ticker, timestamp |-> rows[i].timestamp,
         side |-> rows[i].side, dollar_amount |-> rows[i].dollar_amount,
         action |-> rows[i].action]]

\* the frame before rebalancing
ClassifiedRows(portfolio, predictions, bars, now) ==
    LET joined == prior_portfolio_predictions(portfolio, predictions)
    IN  portfolio_with_actions(
            prior_portfolio_with_data(joined,
                                      position_returns(joined, bars, now)))

add_portfolio_performance_columns(portfolio, predictions, bars, now, best_shorts, best_longs) ==
    DropPerformanceColumns(
        Rebalanced(ClassifiedRows(portfolio, predictions, bars, now),
                   best_shorts, best_longs))

(***************************************************************************)
(* Inputs of the classifier: a snapshot as the constructor writes it (one  *)
(* row per ticker, never empty), at most one prediction per ticker and     *)
(* timestamp, and the bars of each ticker.                                 *)
(***************************************************************************)
MaxLogReturn == 1

LogReturns == (-MaxLogReturn)..MaxLogReturn
ClassifierTickers == {1, 2, 3, 4}

\* the last second of the day before now and the first second of its day
OpenedBefore(now) == Date(now) * 86400 - 1
OpenedToday(now) == Date(now) * 86400

\* (thresholds, log return of the bar) of a position opened before today
CasesBefore ==
    { <<"normal", <<v>>>> : v \in LogReturns }
        \cup { <<"normal", Null>>, <<"crossed", <<0>>>>,
               <<"missing", <<MaxLogReturn>>>> }

CasesToday == { <<"normal", <<-MaxLogReturn>>>>, <<"normal", <<MaxLogReturn>>>> }

PositionCases(now) ==
    { [side |-> s, timestamp |-> OpenedBefore(now), case |-> c] :
        s \in {"LONG", "SHORT"}, c \in CasesBefore }
    \cup { [side |-> s, timestamp |-> OpenedToday(now), case |-> c] :
             s \in {"LONG", "SHORT"}, c \in CasesToday }

\* the snapshot row of ticker t, as the constructor wrote it
SnapshotRow(t, k) ==
    [ticker |-> t, timestamp |-> k.timestamp, side |-> k.side,
     dollar_amount |-> Rat(500, 1), action |-> "OPEN_POSITION"]

\* the predictions of ticker t: an older one that must not be joined, and
\* the one made when the position was opened
PredictionRows(t, k) ==
    <<[ticker |-> t, timestamp |-> k.timestamp - 86400,
       quantile_10 |-> 1000, quantile_90 |-> -1000]>>
    \o (CASE k.case[1] = "normal" ->
               <<[ticker |-> t, timestamp |-> k.timestamp,
                  quantile_10 |-> -95, quantile_90 |-> 105]>>
          [] k.case[1] = "crossed" ->
               <<[ticker |-> t, timestamp |-> k.timestamp,
                  quantile_10 |-> 0, quantile_90 |-> 0]>>
          [] OTHER -> <<>>)

\* the bars of ticker t: one before the position was opened, one at its
\* timestamp, one after now
BarRows(t, k, now) ==
    <<[ticker |-> t, timestamp |-> k.timestamp - 86400,
       log_daily_returns |-> <<2>>],
      [ticker |-> t, timestamp |-> k.timestamp,
       log_daily_returns |-> k.case[2]],
      [ticker |-> t, timestamp |-> now + 1, log_daily_returns |-> <<-2>>]>>

RECURSIVE ClassifierInputs(_, _)
\* snapshots of the tickers 1..n with their predictions and bars
ClassifierInputs(n, now) ==
    IF n = 0
    THEN {[portfolio |-> <<>>, predictions |-> <<>>, bars |-> <<>>]}
    ELSE { [portfolio |-> i.portfolio \o <<SnapshotRow(n, k)>>,
            predictions |-> i.predictions \o PredictionRows(n, k),
            bars |-> i.bars \o BarRows(n, k, now)] :
             i \in ClassifierInputs(n - 1, now), k \in PositionCases(now) }

ClassifierIdle ==
    /\ classifier_pc = "idle"
    /\ prior_positions = <<>>
    /\ prior_predictions = <<>>
    /\ prior_equity_bars = <<>>
    /\ cycle_timestamp = 0
    /\ positions_with_action = <<>>
    /\ classified_rows = <<>>
    /\ classified_portfolio = <<>>

ClassifierInit ==
    /\ classifier_pc = "input"
    /\ cycle_timestamp \in CurrentTimestamps
    /\ \E n \in ClassifierTickers :
       \E i \in ClassifierInputs(n, cycle_timestamp) :
          /\ prior_positions = i.portfolio
          /\ prior_predictions = i.predictions
          /\ prior_equity_bars = i.bars
    /\ positions_with_action = <<>>
    /\ classified_rows = <<>>
    /\ classified_portfolio = <<>>

(***************************************************************************)
(* The classifier is applied to the inputs: add_portfolio_action_column,   *)
(* then add_portfolio_performance_columns.                                 *)
(***************************************************************************)
AddPortfolioActionColumn ==
    /\ classifier_pc = "input"
    /\ positions_with_action' =
          add_portfolio_action_column(prior_positions, cycle_timestamp)
    /\ classifier_pc' = "actions"
    /\ UNCHANGED <<prior_positions, prior_predictions, prior_equity_bars,
                   cycle_timestamp, classified_rows, classified_portfolio>>
    /\ UNCHANGED exceptClassifierVars

AddPortfolioPerformanceColumns ==
    /\ classifier_pc = "actions"
    /\ LET rows == ClassifiedRows(positions_with_action, prior_predictions,
                                  prior_equity_bars, cycle_timestamp)
       IN  /\ classified_rows' = rows
           /\ \E best_shorts \in
                    SortedByReturn(EligibleForRebalance(rows, "SHORT"), FALSE),
                 best_longs \in
                    SortedByReturn(EligibleForRebalance(rows, "LONG"), TRUE) :
                 classified_portfolio' =
                    add_portfolio_performance_columns(
                        positions_with_action, prior_predictions,
                        prior_equity_bars, cycle_timestamp,
                        best_shorts, best_longs)
    /\ classifier_pc' = "done"
    /\ UNCHANGED <<prior_positions, prior_predictions, prior_equity_bars,
                   cycle_timestamp, positions_with_action>>
    /\ UNCHANGED exceptClassifierVars

ClassifierNext ==
    \/ AddPortfolioActionColumn
    \/ AddPortfolioPerformanceColumns

(***************************************************************************)
(* risk_management.py, ranking of the predictions.  Quantiles are integers *)
(* in hundredths.  Every score of one batch is a fraction over the same    *)
(* positive standard deviation, which is kept as the variance it is the    *)
(* root of, so a score is its numerator and that denominator.              *)
(***************************************************************************)
RatMul(a, b) == Rat(a.num * b.num, a.den * b.den)

RECURSIVE RatTotal(_)
\* the sum of a column of fractions
RatTotal(values) ==
    IF values = <<>> THEN Zero
    ELSE RatAdd(values[1], RatTotal(Tail(values)))

quantile_50_mean(predictions) ==
    RatDiv(RatTotal([i \in 1..Len(predictions) |->
                       Rat(predictions[i].quantile_50, 1)]),
           Len(predictions))

\* std() is the sample deviation: null for one row; "or 1e-8" replaces null
\* and zero
quantile_50_standard_deviation(predictions) ==
    IF Len(predictions) < 2 THEN "1e-8"
    ELSE LET mean == quantile_50_mean(predictions)
             squares == [i \in 1..Len(predictions) |->
                           LET d == RatSub(Rat(predictions[i].quantile_50, 1),
                                           mean)
                           IN  RatMul(d, d)]
             variance == RatDiv(RatTotal(squares), Len(predictions) - 1)
         IN  IF variance = Zero THEN "1e-8" ELSE [sqrt_of |-> variance]

\* the order of sort(["composite_score", "inter_quartile_range"],
\* descending = [True, False]) with the tie broken the other way
RankedBefore_widest_first(a, b) ==
    \/ ~RatLeq(a.composite_score.numerator, b.composite_score.numerator)
    \/ /\ a.composite_score.numerator = b.composite_score.numerator
       /\ a.inter_quartile_range >= b.inter_quartile_range

\* the order of sort(["composite_score", "inter_quartile_range"],
\* descending = [True, False])
RankedBefore(a, b) ==
    \/ ~RatLeq(a.composite_score.numerator, b.composite_score.numerator)
    \/ /\ a.composite_score.numerator = b.composite_score.numerator
       /\ a.inter_quartile_range <= b.inter_quartile_range

RECURSIVE InsertRanked(_, _)
\* the sort is stable: equal rows keep the order of the input
InsertRanked(row, sorted) ==
    IF sorted = <<>> THEN <<row>>
    ELSE IF RankedBefore(sorted[1], row)
         THEN <<sorted[1]>> \o InsertRanked(row, Tail(sorted))
         ELSE <<row>> \o sorted

RECURSIVE SortRanked(_)
SortRanked(rows) ==
    IF rows = <<>> THEN <<>>
    ELSE InsertRanked(rows[Len(rows)],
                      SortRanked(SubSeq(rows, 1, Len(rows) - 1)))

add_predictions_zscore_ranked_columns(predictions) ==
    IF predictions = <<>> THEN <<>>
    ELSE
    LET mean == quantile_50_mean(predictions)
        standard_deviation == quantile_50_standard_deviation(predictions)
        Scored(p) ==
            LET centered == RatSub(Rat(p.quantile_50, 1), mean)
                inter_quartile_range == p.quantile_90 - p.quantile_10
            IN  [ticker |-> p.ticker,
                 quantile_10 |-> p.quantile_10,
                 quantile_50 |-> p.quantile_50,
                 quantile_90 |-> p.quantile_90,
                 z_score_return |->
                    [numerator |-> centered,
                     denominator |-> standard_deviation],
                 inter_quartile_range |-> inter_quartile_range,
                 \* z / (1 + iqr), the 1 being 100 hundredths
                 composite_score |->
                    [numerator |->
                        RatDiv(RatMul(centered, Rat(100, 1)),
                               100 + inter_quartile_range),
                     denominator |-> standard_deviation],
                 action |-> "UNSPECIFIED"]
    IN  SortRanked([i \in 1..Len(predictions) |-> Scored(predictions[i])])

(***************************************************************************)
(* Inputs of the ranking: up to MaxRanked predictions of distinct tickers, *)
(* each with one of three medians and a narrow or a wide range.            *)
(***************************************************************************)
MaxRanked == 4

Medians == {-10, 0, 10}
HalfRanges == {2, 25}

RawPrediction(t, median, half) ==
    [ticker |-> t, quantile_10 |-> median - half, quantile_50 |-> median,
     quantile_90 |-> median + half]

RawPredictionBatches ==
    UNION { { [i \in 1..n |-> RawPrediction(i, m[i], h[i])] :
                m \in [1..n -> Medians], h \in [1..n -> HalfRanges] } :
            n \in 0..MaxRanked }

RankingIdle ==
    /\ ranking_pc = "idle"
    /\ raw_predictions = <<>>
    /\ ranked_predictions = <<>>

RankingInit ==
    /\ ranking_pc = "input"
    /\ raw_predictions \in RawPredictionBatches
    /\ ranked_predictions = <<>>

AddPredictionsZscoreRankedColumns ==
    /\ ranking_pc = "input"
    /\ ranked_predictions' =
          add_predictions_zscore_ranked_columns(raw_predictions)
    /\ ranking_pc' = "done"
    /\ UNCHANGED raw_predictions
    /\ UNCHANGED exceptRankingVars

RankingNext ==
    \/ AddPredictionsZscoreRankedColumns

(***************************************************************************)
(* risk_management.py, returns and realized volatility of the equity bars. *)
(* Close prices are positive integers and never null; a return is an exact *)
(* fraction; a logarithm and a standard deviation are kept as their        *)
(* arguments.                                                              *)
(***************************************************************************)
minimum_bars_per_ticker_required == 30

ticker_counts(bars) ==
    [t \in TickersOf(bars) |-> Len(SelectSeq(bars, LAMBDA b : b.ticker = t))]

insufficient_tickers(bars) ==
    { t \in TickersOf(bars) :
        ticker_counts(bars)[t] < minimum_bars_per_ticker_required }

\* the order of sort(["ticker", "timestamp"])
TickerTimestampLeq(a, b) ==
    \/ a.ticker < b.ticker
    \/ a.ticker = b.ticker /\ a.timestamp <= b.timestamp

\* each bar goes to the place after the bars that sort before it; bars of
\* equal ticker and timestamp keep the order of the input
SortTickerTimestamp(bars) ==
    LET Precedes(j, k) ==
            \/ ~TickerTimestampLeq(bars[k], bars[j])
            \/ TickerTimestampLeq(bars[j], bars[k]) /\ j < k
        place == [k \in 1..Len(bars) |->
                    1 + Cardinality({ j \in 1..Len(bars) : Precedes(j, k) })]
    IN  [i \in 1..Len(bars) |->
           bars[CHOOSE k \in 1..Len(bars) : place[k] = i]]

\* close_price.pct_change().over("ticker") of row i of the sorted bars
daily_returns(sorted, i) ==
    IF i = 1 \/ sorted[i - 1].ticker # sorted[i].ticker THEN Null
    ELSE <<Rat(sorted[i].close_price - sorted[i - 1].close_price,
               sorted[i - 1].close_price)>>

\* log of (daily_returns + 1) when that is positive, null otherwise
log_daily_returns(sorted, i) ==
    LET r == daily_returns(sorted, i)
    IN  IF r = Null THEN Null
        ELSE IF RatLeq(RatAdd(r[1], Rat(1, 1)), Zero) THEN Null
        ELSE <<[log_of |-> RatAdd(r[1], Rat(1, 1))]>>

\* rolling_std over the last 30 rows of the column: null until 30 values
realized_volatility(sorted, i) ==
    IF i < minimum_bars_per_ticker_required THEN Null
    ELSE LET first == i - minimum_bars_per_ticker_required + 1
         IN  IF \E j \in first..i : daily_returns(sorted, j) = Null THEN Null
             ELSE <<[std_of |-> [j \in 1..minimum_bars_per_ticker_required |->
                                   daily_returns(sorted, first + j - 1)[1]]]>>

\* the returns step that leaves the tickers with too few bars out
add_equity_bars_returns_and_realized_volatility_columns_drop(bars) ==
    LET kept == SelectSeq(bars,
                    LAMBDA b : b.ticker \notin insufficient_tickers(bars))
        sorted == SortTickerTimestamp(kept)
    IN  [raised |-> None, insufficient_list |-> {},
         rows |-> [i \in 1..Len(sorted) |->
                     [ticker |-> sorted[i].ticker,
                      timestamp |-> sorted[i].timestamp,
                      close_price |-> sorted[i].close_price,
                      daily_returns |-> daily_returns(sorted, i),
                      log_daily_returns |-> log_daily_returns(sorted, i),
                      realized_volatility |-> realized_volatility(sorted, i)]]]

add_equity_bars_returns_and_realized_volatility_columns(bars) ==
    IF insufficient_tickers(bars) # {}
    THEN [raised |-> "ValueError",
          insufficient_list |-> insufficient_tickers(bars), rows |-> <<>>]
    ELSE LET sorted == SortTickerTimestamp(bars)
         IN  [raised |-> None, insufficient_list |-> {},
              rows |-> [i \in 1..Len(sorted) |->
                          [ticker |-> sorted[i].ticker,
                           timestamp |-> sorted[i].timestamp,
                           close_price |-> sorted[i].close_price,
                           daily_returns |-> daily_returns(sorted, i),
                           log_daily_returns |-> log_daily_returns(sorted, i),
                           realized_volatility |->
                              realized_volatility(sorted, i)]]]

(***************************************************************************)
(* Inputs of the returns step: for each of three tickers a number of bars, *)
(* one bar per ticker and day, the days in turn.                           *)
(***************************************************************************)
MaxBars == 31

BarTickers == {1, 2, 3}
BarCounts ==
    {0, 1, minimum_bars_per_ticker_required - 1,
     minimum_bars_per_ticker_required, MaxBars}

\* the bars of day d for the tickers that still have one
BarsOfDay(counts, d) ==
    LET have == { t \in BarTickers : counts[t] >= d }
    IN  [i \in 1..Cardinality(have) |->
           LET t == CHOOSE u \in have :
                       Cardinality({ w \in have : w > u }) = i - 1
           IN  [ticker |-> t, timestamp |-> d * 86400,
                close_price |-> 100 + ((d * t) % 7)]]

RECURSIVE BarsUpTo(_, _)
\* the batch: day by day, within a day the tickers descending
BarsUpTo(counts, d) ==
    IF d = 0 THEN <<>> ELSE BarsUpTo(counts, d - 1) \o BarsOfDay(counts, d)

EquityBars(counts) == BarsUpTo(counts, MaxBars)

NoReturns == [raised |-> None, insufficient_list |-> {}, rows |-> <<>>]

BarsIdle ==
    /\ bars_pc = "idle"
    /\ prior_bars = <<>>
    /\ bars_with_returns = NoReturns

BarsInit ==
    /\ bars_pc = "input"
    /\ \E counts \in [BarTickers -> BarCounts] :
          prior_bars = EquityBars(counts)
    /\ bars_with_returns = NoReturns

AddEquityBarsReturns ==
    /\ bars_pc = "input"
    /\ bars_with_returns' =
          add_equity_bars_returns_and_realized_volatility_columns(prior_bars)
    /\ bars_pc' = "done"
    /\ UNCHANGED prior_bars
    /\ UNCHANGED exceptBarsVars

BarsNext ==
    \/ AddEquityBarsReturns

(***************************************************************************)
(* tools/ralph_marketplace_budget.py: allocate_budgets.  The bots are      *)
(* numbered in the order of state.bots; weights and efficiencies are exact *)
(* fractions, so int() of a non-negative amount is the integer quotient.   *)
(***************************************************************************)
RatLess(a, b) == ~RatLeq(b, a)

\* int(x) for x >= 0
IntegerPart(x) == x.num \div x.den

\* total_budget * (score / total_combined): a division of fractions
Proportion(total_budget, score, total_combined) ==
    Rat(total_budget * score.num * total_combined.den,
        score.den * total_combined.num)

\* sorted(..., key = keys, reverse = True): the bots by key descending, bots
\* of equal key in their order in the dictionary
SortedDescending(keys) ==
    LET n == Len(keys)
        place == [k \in 1..n |->
                    1 + Cardinality({ j \in 1..n :
                                        \/ RatLess(keys[k], keys[j])
                                        \/ keys[j] = keys[k] /\ j < k })]
    IN  [i \in 1..n |-> CHOOSE k \in 1..n : place[k] = i]

RECURSIVE EnforceMinimum(_, _, _)
\* the loop over zero_bots: take one iteration from the best-scoring bot
\* that has more than one, or give one without taking it
EnforceMinimum(zero_bots, sorted_bots, integer_allocations) ==
    IF zero_bots = <<>> THEN integer_allocations
    ELSE LET zero_bot == Head(zero_bots)
             donors == { p \in 1..Len(sorted_bots) :
                           integer_allocations[sorted_bots[p]] > 1 }
         IN  IF donors # {}
             THEN LET donor_bot_id ==
                          sorted_bots[CHOOSE p \in donors :
                                         \A q \in donors : p <= q]
                  IN  EnforceMinimum(
                          Tail(zero_bots), sorted_bots,
                          [integer_allocations EXCEPT
                              ![donor_bot_id] = @ - 1, ![zero_bot] = @ + 1])
             ELSE EnforceMinimum(
                      Tail(zero_bots), sorted_bots,
                      [integer_allocations EXCEPT ![zero_bot] = 1])

allocate_budgets(state) ==
    LET total_budget == state.total_budget_pool
        n == Len(state.bots)
        combined_scores ==
            [b \in 1..n |->
                RatMul(state.bots[b].weight, state.bots[b].efficiency)]
        total_combined == RatTotal(combined_scores)
    IN  IF total_combined = Zero
        THEN IF n = 0
             THEN [raised |-> "ZeroDivisionError", budgets |-> <<>>]
             ELSE [raised |-> None,
                   budgets |-> [b \in 1..n |->
                                  IntegerPart(Rat(total_budget, n))]]
        ELSE
        LET allocations ==
                [b \in 1..n |->
                    Proportion(total_budget, combined_scores[b],
                               total_combined)]
            floored == [b \in 1..n |-> IntegerPart(allocations[b])]
            total_allocated ==
                RatTotal([b \in 1..n |-> Rat(floored[b], 1)]).num
            remaining == total_budget - total_allocated
            sorted_by_fraction ==
                SortedDescending(
                    [b \in 1..n |->
                        RatSub(allocations[b], Rat(floored[b], 1))])
            after_remaining ==
                [b \in 1..n |->
                    floored[b] +
                    Cardinality({ i \in 0..(remaining - 1) :
                                    sorted_by_fraction[(i % n) + 1] = b })]
            zero_bots ==
                SelectSeq([b \in 1..n |-> b],
                          LAMBDA b : after_remaining[b] = 0)
            sorted_bots == SortedDescending(combined_scores)
        IN  [raised |-> None,
             budgets |-> EnforceMinimum(zero_bots, sorted_bots,
                                        after_remaining)]

(***************************************************************************)
(* Inputs of allocate_budgets: up to MaxBots bots, each with one of two    *)
(* weights and an efficiency of 0, 1/2 or 1, and a pool of 0..MaxPool.     *)
(***************************************************************************)
MaxBots == 3
MaxPool == 7

BotWeights == {Rat(1, 5), Rat(3, 5)}
BotEfficiencies == {Zero, Rat(1, 2), Rat(1, 1)}

MarketplaceStates ==
    UNION { { [bots |-> [b \in 1..n |->
                           [weight |-> w[b], efficiency |-> e[b]]],
               total_budget_pool |-> pool] :
                w \in [1..n -> BotWeights], e \in [1..n -> BotEfficiencies],
                pool \in 0..MaxPool } :
            n \in 0..MaxBots }

NoAllocations == [raised |-> None, budgets |-> <<>>]

BudgetIdle ==
    /\ budget_pc = "idle"
    /\ marketplace_state = [bots |-> <<>>, total_budget_pool |-> 0]
    /\ budget_allocations = NoAllocations

BudgetInit ==
    /\ budget_pc = "input"
    /\ marketplace_state \in MarketplaceStates
    /\ budget_allocations = NoAllocations

AllocateBudgets ==
    /\ budget_pc = "input"
    /\ budget_allocations' = allocate_budgets(marketplace_state)
    /\ budget_pc' = "done"
    /\ UNCHANGED marketplace_state
    /\ UNCHANGED exceptBudgetVars

BudgetNext ==
    \/ AllocateBudgets

(***************************************************************************)
(* tools/ralph_marketplace_state.py: MarketplaceStateManager.  The event   *)
(* log is a directory of files, one per event, named by the timestamp, the *)
(* bot and the outcome of the event; the configuration is the default one. *)
(* An absent file is <<>>.  The events carry no weight_delta and no        *)
(* accuracy, so every weight stays 1 / num_bots, which the constraints     *)
(* leave alone.  last_updated is left out of the state.                    *)
(***************************************************************************)
num_bots == 3
base_budget_per_bot == 10

\* the name record_event gives the file of an event
FileName(event) == <<event.timestamp, event.bot_id, event.outcome>>

RECURSIVE NamesByTimestamp(_)
NamesByTimestamp(names) ==
    IF names = {} THEN <<>>
    ELSE LET first == CHOOSE k \in names : \A j \in names : k[1] <= j[1]
         IN  <<first>> \o NamesByTimestamp(names \ {first})

\* load_events: every event of the directory, sorted by timestamp
load_events(files) ==
    LET names == NamesByTimestamp(DOMAIN files)
    IN  [i \in 1..Len(names) |-> files[names[i]]]

\* outcome.endswith("_success") or outcome == "success"
IsSuccess(outcome) == outcome[Len(outcome)] = "success"

\* "failure" in outcome or "failed" in outcome
IsFailure(outcome) ==
    \E i \in 1..Len(outcome) : outcome[i] \in {"failure", "failed"}

compute_state_from_events(events) ==
    LET Of(b) == SelectSeq(events, LAMBDA e : e.bot_id = b)
        implementations_succeeded(b) ==
            Len(SelectSeq(Of(b), LAMBDA e : IsSuccess(e.outcome)))
        implementations_failed(b) ==
            Len(SelectSeq(Of(b), LAMBDA e : /\ ~IsSuccess(e.outcome)
                                            /\ IsFailure(e.outcome)))
        total_attempts(b) ==
            implementations_succeeded(b) + implementations_failed(b)
    IN  [bots |->
            [b \in 1..num_bots |->
                [weight |-> Rat(1, num_bots),
                 efficiency |->
                    IF total_attempts(b) > 0
                    THEN Rat(implementations_succeeded(b), total_attempts(b))
                    ELSE Rat(1, 1),
                 proposals_submitted |-> 0,
                 implementations_succeeded |-> implementations_succeeded(b),
                 implementations_failed |-> implementations_failed(b),
                 total_iterations_used |->
                    RatTotal([i \in 1..Len(Of(b)) |->
                                Rat(Of(b)[i].iteration_count, 1)]).num,
                 average_accuracy |-> 0]],
         total_budget_pool |-> num_bots * base_budget_per_bot,
         rounds_completed |-> Len(events)]

(***************************************************************************)
(* The calls of the manager.  An event has one of two timestamps, one of   *)
(* three outcomes and an iteration count of 1 or 2; the log holds at most  *)
(* MaxEvents files.                                                        *)
(***************************************************************************)
MaxEvents == 2

Events ==
    [timestamp : {1, 2}, bot_id : {1},
     outcome : { <<"ranked", "first", "success">>,
                 <<"ranked", "first", "failure">>,
                 <<"ranked", "not", "tried">> },
     iteration_count : {1, 2}]

ManagerIdle ==
    /\ manager_pc = "idle"
    /\ event_files = <<>>
    /\ state_file = <<>>
    /\ version_file = -1
    /\ last_call = "none"
    /\ loaded_state = <<>>

ManagerInit ==
    /\ manager_pc = "ready"
    /\ event_files = <<>>
    /\ state_file = <<>>
    /\ version_file = -1
    /\ last_call = "none"
    /\ loaded_state = <<>>

\* record_event: the file of the event is written, over a file of the same
\* name if there is one
RecordEvent ==
    /\ manager_pc = "ready"
    /\ \E event \in Events :
          /\ \/ FileName(event) \in DOMAIN event_files
             \/ Cardinality(DOMAIN event_files) < MaxEvents
          /\ event_files' =
                [name \in DOMAIN event_files \cup {FileName(event)} |->
                    IF name = FileName(event) THEN event
                    ELSE event_files[name]]
    /\ last_call' = "record_event"
    /\ UNCHANGED <<manager_pc, state_file, version_file, loaded_state>>
    /\ UNCHANGED exceptManagerVars

\* load_state: the cached state when the version file holds the number of
\* events, else the state computed from the events, which is cached
LoadState ==
    /\ manager_pc = "ready"
    /\ LET events == load_events(event_files)
           cached_version == IF version_file >= 0 THEN version_file ELSE 0
       IN  IF state_file # <<>> /\ cached_version = Len(events)
           THEN /\ loaded_state' = state_file
                /\ UNCHANGED <<state_file, version_file>>
           ELSE /\ loaded_state' = <<compute_state_from_events(events)>>
                /\ state_file' = <<compute_state_from_events(events)>>
                /\ version_file' = Len(events)
    /\ last_call' = "load_state"
    /\ UNCHANGED <<manager_pc, event_files>>
    /\ UNCHANGED exceptManagerVars

\* save_state of a state that load_state returned earlier
SaveState ==
    /\ manager_pc = "ready"
    /\ loaded_state # <<>>
    /\ state_file' = loaded_state
    /\ version_file' = Len(load_events(event_files))
    /\ last_call' = "save_state"
    /\ UNCHANGED <<manager_pc, event_files, loaded_state>>
    /\ UNCHANGED exceptManagerVars

ResetState ==
    /\ manager_pc = "ready"
    /\ event_files' = <<>>
    /\ state_file' = <<>>
    /\ version_file' = -1
    /\ last_call' = "reset_state"
    /\ UNCHANGED <<manager_pc, loaded_state>>
    /\ UNCHANGED exceptManagerVars

ManagerNext ==
    \/ RecordEvent
    \/ LoadState
    \/ SaveState
    \/ ResetState

vars ==
    <<serverVars, portfolioVars, classifierVars, barsVars, rankingVars,
      budgetVars, managerVars>>

Init ==
    ServerInit /\ PortfolioIdle /\ ClassifierIdle /\ BarsIdle /\ RankingIdle
        /\ BudgetIdle /\ ManagerIdle
Next == ServerNext
Spec == Init /\ [][Next]_vars

InitPortfolio ==
    ServerInit /\ PortfolioInit /\ ClassifierIdle /\ BarsIdle /\ RankingIdle
        /\ BudgetIdle /\ ManagerIdle
SpecPortfolio == InitPortfolio /\ [][PortfolioNext]_vars

\* snapshots of the tickers 1..n in which the ticker of the first position,
\* opened before today, occurs in a second position, opened today
RepeatedTickerInputs(n, now) ==
    { [portfolio |-> i.portfolio \o <<SnapshotRow(1, k)>>,
       predictions |-> i.predictions \o PredictionRows(1, k),
       bars |-> i.bars \o BarRows(1, k, now)] :
         i \in { j \in ClassifierInputs(n, now) :
                   j.portfolio[1].timestamp = OpenedBefore(now) },
         k \in { p \in PositionCases(now) : p.timestamp = OpenedToday(now) } }

RepeatedTickers == {1, 2}

ClassifierInitRepeated ==
    /\ classifier_pc = "input"
    /\ cycle_timestamp \in CurrentTimestamps
    /\ \E n \in RepeatedTickers :
       \E i \in RepeatedTickerInputs(n, cycle_timestamp) :
          /\ prior_positions = i.portfolio
          /\ prior_predictions = i.predictions
          /\ prior_equity_bars = i.bars
    /\ positions_with_action = <<>>
    /\ classified_rows = <<>>
    /\ classified_portfolio = <<>>

InitClassifierRepeated ==
    ServerInit /\ PortfolioIdle /\ ClassifierInitRepeated /\ BarsIdle
        /\ RankingIdle /\ BudgetIdle /\ ManagerIdle
SpecClassifierRepeated == InitClassifierRepeated /\ [][ClassifierNext]_vars

InitClassifier ==
    ServerInit /\ PortfolioIdle /\ ClassifierInit /\ BarsIdle /\ RankingIdle
        /\ BudgetIdle /\ ManagerIdle
SpecClassifier == InitClassifier /\ [][ClassifierNext]_vars

InitBars ==
    ServerInit /\ PortfolioIdle /\ ClassifierIdle /\ BarsInit /\ RankingIdle
        /\ BudgetIdle /\ ManagerIdle
SpecBars == InitBars /\ [][BarsNext]_vars

InitRanking ==
    ServerInit /\ PortfolioIdle /\ ClassifierIdle /\ BarsIdle /\ RankingInit
        /\ BudgetIdle /\ ManagerIdle
SpecRanking == InitRanking /\ [][RankingNext]_vars

InitBudget ==
    ServerInit /\ PortfolioIdle /\ ClassifierIdle /\ BarsIdle /\ RankingIdle
        /\ BudgetInit /\ ManagerIdle
SpecBudget == InitBudget /\ [][BudgetNext]_vars

InitManager ==
    ServerInit /\ PortfolioIdle /\ ClassifierIdle /\ BarsIdle /\ RankingIdle
        /\ BudgetIdle /\ ManagerInit
SpecManager == InitManager /\ [][ManagerNext]_vars

(***************************************************************************)
(* Properties of the execution orchestrator (specification Spec).          *)
(***************************************************************************)

\* C1: an open instruction whose dollar_amount is strictly greater than the
\* remaining buying power gets the result status=skipped,
\* reason=insufficient_buying_power; the step calls no open_position of the
\* broker and hands the remaining buying power on unchanged.
C1_SkippedOnInsufficientBuyingPower ==
    [][ ( /\ pc = "opening"
          /\ Len(open_results) < Len(open_positions)
          /\ open_positions[Len(open_results) + 1].dollar_amount
                > remaining_buying_power )
        => ( /\ Len(open_results') = Len(open_results) + 1
             /\ open_results'[Len(open_results')].ticker
                    = open_positions[Len(open_results) + 1].ticker
             /\ open_results'[Len(open_results')].status = "skipped"
             /\ open_results'[Len(open_results')].reason
                    = "insufficient_buying_power"
             /\ broker_calls' = broker_calls
             /\ remaining_buying_power' = remaining_buying_power ) ]_vars

\* the second open was skipped without a call, after the first had used the
\* buying power up
C1_Witness ==
    /\ pc = "opening"
    /\ Len(open_results) = 2
    /\ open_results[1].status = "success"
    /\ open_results[2].status = "skipped"
    /\ open_results[2].reason = "insufficient_buying_power"
    /\ open_results[2].dollar_amount > remaining_buying_power
    /\ broker_answer = NoAnswer
    /\ Len(broker_calls) = 1

\* what the claim calls a position-not-found report of the broker
C2_ReportsPositionNotFound(e) ==
    /\ e.kind = "APIError"
    /\ \/ e.status_code = 404
       \/ e.code = "position_not_found"
       \/ Contains(Lower(e.text), <<"position", "not", "found">>)
       \/ Contains(Lower(e.text), <<"position", "does", "not", "exist">>)

\* C2: when the broker reports position-not-found for a close, the result of
\* that instruction is status=skipped, reason=position_not_found, and the
\* cycle goes on (no exception leaves the close step: no server error).
C2_PositionNotFoundIsSkipped ==
    ( /\ broker_answer.call = "close"
      /\ C2_ReportsPositionNotFound(broker_answer.outcome) )
    => ( /\ Len(close_results) >= 1
         /\ close_results[Len(close_results)].ticker
                = close_positions[Len(close_results)].ticker
         /\ close_results[Len(close_results)].status = "skipped"
         /\ close_results[Len(close_results)].reason = "position_not_found"
         /\ pc \in {"closing", "opening"} )

\* a close answered with HTTP status 404 and a message that says nothing
C2_Witness ==
    /\ broker_answer.call = "close"
    /\ broker_answer.outcome.status_code = 404
    /\ close_results[Len(close_results)].status = "skipped"
    /\ Len(close_results) = 2

\* the errors of the broker or the network that are no rejection of the order
C3_IsBrokerOrNetworkError(e) ==
    e.text \in {<<"server", "error">>, <<"connection", "timed", "out">>}

\* C3: a broker or network error on a close or an open is recorded as that
\* instruction's result with status=failed and the error text; the results
\* hold one entry per close instruction, then one entry per open instruction,
\* in instruction order, and a cycle that answers 200 or 207 has processed
\* every instruction.
C3_OneResultPerInstruction ==
    /\ Len(close_results) <= Len(close_positions)
    /\ Len(open_results) <= Len(open_positions)
    /\ \A i \in 1..Len(close_results) :
          /\ close_results[i].action = "close"
          /\ close_results[i].ticker = close_positions[i].ticker
    /\ \A i \in 1..Len(open_results) :
          /\ open_results[i].action = "open"
          /\ open_results[i].ticker = open_positions[i].ticker
          /\ open_results[i].side = open_positions[i].side
          /\ open_results[i].dollar_amount = open_positions[i].dollar_amount
    /\ Len(open_results) > 0 => Len(close_results) = Len(close_positions)
    /\ ( /\ broker_answer.call = "close"
         /\ C3_IsBrokerOrNetworkError(broker_answer.outcome) )
       => ( /\ close_results[Len(close_results)].status = "failed"
            /\ close_results[Len(close_results)].error
                  = broker_answer.outcome.text )
    /\ ( /\ broker_answer.call = "open"
         /\ C3_IsBrokerOrNetworkError(broker_answer.outcome.submit) )
       => ( /\ open_results[Len(open_results)].status = "failed"
            /\ open_results[Len(open_results)].error
                  = broker_answer.outcome.submit.text )
    /\ ( pc = "done" /\ response.status_code \in {200, 207} )
       => ( /\ Len(close_results) = Len(close_positions)
            /\ Len(open_results) = Len(open_positions)
            /\ Len(close_positions) = Len(prior_portfolio_tickers)
            /\ Len(open_positions) = Len(optimal_portfolio) )

\* a cycle that ended after its first close and its first open had failed and
\* the second close and the second open were still carried out
C3_Witness ==
    /\ pc = "done"
    /\ Len(close_results) = 2
    /\ Len(open_results) = 2
    /\ close_results[1].status = "failed"
    /\ close_results[2].status = "success"
    /\ open_results[1].status = "failed"
    /\ open_results[2].status = "success"

\* the cycle has carried out the instructions of a constructed portfolio
C4_CycleExecuted == pc = "done" /\ optimal_portfolio # <<>>

\* C4: a cycle whose target portfolio was constructed and executed answers
\* 207 when a result has status=failed and 200 otherwise, so that results that
\* are only success or skipped give 200.
C4_ResponseFollowsResults ==
    C4_CycleExecuted
    => ( response.status_code =
            IF \E i \in 1..Len(all_results) : all_results[i].status = "failed"
            THEN 207 ELSE 200 )

\* a cycle with a skipped instruction and no failed one that answered 200
C4_Witness ==
    /\ C4_CycleExecuted
    /\ response.status_code = 200
    /\ \E i \in 1..Len(all_results) : all_results[i].status = "skipped"
    /\ \E i \in 1..Len(all_results) : all_results[i].status = "success"

\* C5: when the constructor raises InsufficientPredictionsError the cycle ends
\* with 204 and the header X-Portfolio-Status: insufficient-predictions; no
\* snapshot was stored and no close or open instruction was sent.
C5_InsufficientPredictionsSkipsCycle ==
    constructed = "insufficient"
    => ( /\ pc = "done"
         /\ response.status_code = 204
         /\ response.headers
              = {<<"X-Portfolio-Status", "insufficient-predictions">>}
         /\ snapshot_posts = 0
         /\ broker_calls = <<>>
         /\ close_results = <<>>
         /\ open_results = <<>> )

\* a cycle with a prior portfolio in which the constructor raised
C5_Witness ==
    /\ constructed = "insufficient"
    /\ prior_portfolio_tickers # <<>>
    /\ response.status_code = 204

C7_ClosesBeforeOpens ==
    /\ \A i, j \in 1..Len(broker_calls) :
          (i < j /\ broker_calls[i].op = "open") => broker_calls[j].op = "open"
    /\ ( Len(open_results) > 0
         \/ \E i \in 1..Len(broker_calls) : broker_calls[i].op = "open" )
       => Len(close_results) = Len(close_positions)
    /\ pc = "opening" => Len(close_results) = Len(close_positions)

\* two closes, the first failed, then an open
C7_Witness ==
    /\ Len(broker_calls) = 3
    /\ broker_calls[1].op = "close"
    /\ broker_calls[2].op = "close"
    /\ broker_calls[3].op = "open"
    /\ close_results[1].status = "failed"

(***************************************************************************)
(* Properties of the portfolio constructor (specification SpecPortfolio).  *)
(***************************************************************************)
PortfolioTickers(rows, side) ==
    { rows[i].ticker : i \in { j \in 1..Len(rows) : rows[j].side = side } }

RowsOfSide(rows, side) == SelectSeq(rows, LAMBDA r : r.side = side)

ScoreOf(ticker) ==
    LET i == CHOOSE j \in 1..Len(current_predictions) :
                current_predictions[j].ticker = ticker
    IN  current_predictions[i].composite_score

\* the predictions whose range does not exceed the threshold, in rank order
C8_Candidates ==
    SelectSeq(current_predictions,
              LAMBDA r : r.inter_quartile_range <= UNCERTAINTY_THRESHOLD)

C8_NoPriorPositionKept ==
    \A i \in 1..Len(prior_portfolio) :
        prior_portfolio[i].action
            \notin {"CLOSE_POSITION", "MAINTAIN_POSITION"}

\* C8: with at least 20 candidates after exclusion and no prior position
\* maintained or closed, the constructor returns exactly 20 positions, all
\* OPEN_POSITION: 10 LONG with the highest composite_score, 10 SHORT with the
\* lowest, each with dollar_amount = maximum_capital / 20, so that the long
\* total and the short total are maximum_capital / 2.
C8_FullPortfolio ==
    ( /\ constructor_pc = "done"
      /\ C8_NoPriorPositionKept
      /\ Len(C8_Candidates) >= 20 )
    => LET rows == constructed_portfolio.portfolio
           long == PortfolioTickers(rows, "LONG")
           short == PortfolioTickers(rows, "SHORT")
           candidates == TickersOf(C8_Candidates)
       IN  /\ constructed_portfolio.raised = None
           /\ Len(rows) = 20
           /\ \A i \in 1..Len(rows) :
                 /\ rows[i].action = "OPEN_POSITION"
                 /\ rows[i].dollar_amount = Rat(maximum_capital, 20)
           /\ Cardinality(long) = 10
           /\ Cardinality(short) = 10
           /\ long \cap short = {}
           /\ long \cup short \subseteq candidates
           /\ \A t \in long : \A u \in candidates \ long :
                 ScoreOf(t) >= ScoreOf(u)
           /\ \A t \in short : \A u \in candidates \ short :
                 ScoreOf(t) <= ScoreOf(u)
           /\ RatSum(RowsOfSide(rows, "LONG")) = Rat(maximum_capital, 2)
           /\ RatSum(RowsOfSide(rows, "SHORT")) = Rat(maximum_capital, 2)

\* 22 predictions, two of them excluded for their range, a prior portfolio
\* that was neither maintained nor closed: 20 positions
C8_Witness ==
    /\ constructor_pc = "done"
    /\ C8_NoPriorPositionKept
    /\ Len(prior_portfolio) = 2
    /\ Len(current_predictions) = 22
    /\ Len(C8_Candidates) = 20
    /\ maximum_capital = 10001
    /\ Len(constructed_portfolio.portfolio) = 20

\* the tickers the claim calls excluded: those of the prior portfolio and
\* those with a range above the threshold
C9_ExcludedTickers ==
    TickersOf(prior_portfolio)
        \cup { current_predictions[i].ticker :
                 i \in { j \in 1..Len(current_predictions) :
                           current_predictions[j].inter_quartile_range
                               > UNCERTAINTY_THRESHOLD } }

C9_NotExcluded ==
    SelectSeq(current_predictions, LAMBDA r : r.ticker \notin C9_ExcludedTickers)

\* C9 as claimed: no ticker of the prior portfolio and no ticker whose range
\* exceeds the threshold is in the returned portfolio, and the LONG positions
\* are the best-ranked predictions that are not excluded.
C9_NoExcludedTickerInPortfolio ==
    ( constructor_pc = "done" /\ constructed_portfolio.raised = None )
    => LET rows == constructed_portfolio.portfolio
           long == PortfolioTickers(rows, "LONG")
       IN  /\ TickersOf(rows) \cap C9_ExcludedTickers = {}
           /\ long = TickersOf(SubSeq(C9_NotExcluded, 1, Cardinality(long)))

\* the candidates the claim counts: not in the prior portfolio, range within
\* the threshold
C10_Available == Len(C9_NotExcluded)

\* C10 as claimed: with fewer than 20 candidates after exclusion the
\* constructor raises InsufficientPredictionsError and returns no portfolio,
\* not a partially filled one.
C10_InsufficientCandidatesRaise ==
    ( constructor_pc = "done" /\ C10_Available < 20 )
    => ( /\ constructed_portfolio.raised = "InsufficientPredictionsError"
         /\ constructed_portfolio.portfolio = <<>> )

\* the candidates of full reconciliation: range within the threshold, ticker
\* neither closed nor maintained in the prior portfolio
C11_Candidates ==
    SelectSeq(current_predictions,
              LAMBDA r :
                 /\ r.inter_quartile_range <= UNCERTAINTY_THRESHOLD
                 /\ \A i \in 1..Len(prior_portfolio) :
                       prior_portfolio[i].ticker = r.ticker
                       => prior_portfolio[i].action
                            \notin {"CLOSE_POSITION", "MAINTAIN_POSITION"})

C11_Maintained ==
    SelectSeq(prior_portfolio, LAMBDA r : r.action = "MAINTAIN_POSITION")

RowsOfPosition(rows, position) ==
    SelectSeq(rows, LAMBDA r : /\ r.ticker = position.ticker
                               /\ r.timestamp = position.timestamp)

C12_OpenedSameDay(position) ==
    Date(position.timestamp) = Date(cycle_timestamp)

C13_CloseSent ==
    /\ Len(broker_calls') = Len(broker_calls) + 1
    /\ broker_calls'[Len(broker_calls')].op = "close"

\* C13 as claimed: across any sequence of cycles no close instruction is sent
\* for a position that was opened on the day of the current cycle, also when
\* two cycles run on the same day.
C13_NoSameDayRoundTrip ==
    [][ C13_CloseSent
        => broker_calls'[Len(broker_calls')].ticker \notin opened_today ]_vars

\* the original prediction of a position: made for its ticker at its timestamp
C14_OriginalPredictions(row) ==
    SelectSeq(prior_predictions, LAMBDA p : /\ p.ticker = row.ticker
                                            /\ p.timestamp = row.timestamp)

C14_CloseTrigger(row) ==
    \E i \in 1..Len(C14_OriginalPredictions(row)) :
       LET p == C14_OriginalPredictions(row)[i]
       IN  \/ row.side = "LONG"
              /\ row.cumulative_simple_return <= p.quantile_10
           \/ row.side = "SHORT"
              /\ row.cumulative_simple_return >= p.quantile_90

C14_MaintainTrigger(row) ==
    \E i \in 1..Len(C14_OriginalPredictions(row)) :
       LET p == C14_OriginalPredictions(row)[i]
       IN  \/ row.side = "LONG"
              /\ row.cumulative_simple_return >= p.quantile_90
           \/ row.side = "SHORT"
              /\ row.cumulative_simple_return <= p.quantile_10

C14_IsLocked(row) ==
    \E k \in 1..Len(positions_with_action) :
       /\ positions_with_action[k].ticker = row.ticker
       /\ positions_with_action[k].timestamp = row.timestamp
       /\ positions_with_action[k].action = "PDT_LOCKED"

\* C14: before the rebalancing every position that is not PDT_LOCKED has
\* CLOSE_POSITION if it is LONG with return <= original quantile_10 or SHORT
\* with return >= original quantile_90; otherwise MAINTAIN_POSITION if it is
\* LONG with return >= original quantile_90 or SHORT with return <= original
\* quantile_10; otherwise UNSPECIFIED.  The close trigger comes first.
C14_TriggersDecideAction ==
    classifier_pc = "done"
    => \A j \in 1..Len(classified_rows) :
          ~C14_IsLocked(classified_rows[j])
          => classified_rows[j].action =
                IF C14_CloseTrigger(classified_rows[j])
                THEN "CLOSE_POSITION"
                ELSE IF C14_MaintainTrigger(classified_rows[j])
                THEN "MAINTAIN_POSITION"
                ELSE "UNSPECIFIED"

\* a position for which both triggers hold and that is closed, next to a
\* maintained one and an unspecified one
C14_Witness ==
    /\ classifier_pc = "done"
    /\ \E i, j, k \in 1..Len(classified_rows) :
          /\ ~C14_IsLocked(classified_rows[i])
          /\ C14_CloseTrigger(classified_rows[i])
          /\ C14_MaintainTrigger(classified_rows[i])
          /\ classified_rows[i].action = "CLOSE_POSITION"
          /\ classified_rows[j].action = "MAINTAIN_POSITION"
          /\ classified_rows[k].action = "UNSPECIFIED"
          /\ ~C14_IsLocked(classified_rows[k])

\* counts and index sets of the frame before and after the rebalancing
C15_Closed(rows, side) ==
    { j \in 1..Len(rows) :
        rows[j].side = side /\ rows[j].action = "CLOSE_POSITION" }

C15_Eligible(side) ==
    { j \in 1..Len(classified_rows) :
        /\ classified_rows[j].side = side
        /\ classified_rows[j].action \notin {"CLOSE_POSITION", "PDT_LOCKED"} }

C15_ForceClosed ==
    { j \in 1..Len(classified_rows) :
        /\ classified_rows[j].action # "CLOSE_POSITION"
        /\ classified_portfolio[j].action = "CLOSE_POSITION" }

C15_Imbalance(side, other) ==
    Cardinality(C15_Closed(classified_rows, side))
        - Cardinality(C15_Closed(classified_rows, other))

C16_DeficientSide ==
    IF C15_Imbalance("LONG", "SHORT") > 0 THEN "SHORT" ELSE "LONG"

C16_Missing ==
    IF C15_Imbalance("LONG", "SHORT") > 0
    THEN C15_Imbalance("LONG", "SHORT") ELSE C15_Imbalance("SHORT", "LONG")

C18_SnapshotIsReproduced ==
    classifier_pc = "done"
    => /\ Len(classified_portfolio) = Len(prior_positions)
       /\ \A i \in 1..Len(prior_positions) :
             /\ DOMAIN classified_portfolio[i] = DOMAIN prior_positions[i]
             /\ classified_portfolio[i].ticker = prior_positions[i].ticker
             /\ classified_portfolio[i].timestamp
                   = prior_positions[i].timestamp
             /\ classified_portfolio[i].side = prior_positions[i].side
             /\ classified_portfolio[i].dollar_amount
                   = prior_positions[i].dollar_amount

\* four positions, one without original prediction, one force-closed by the
\* rebalancing, one PDT locked
C18_Witness ==
    /\ classifier_pc = "done"
    /\ Len(prior_positions) = 4
    /\ Len(classified_portfolio) = 4
    /\ \E i \in 1..4 : C14_OriginalPredictions(prior_positions[i]) = <<>>
    /\ \E i \in 1..4 : classified_portfolio[i].action = "PDT_LOCKED"
    /\ C15_ForceClosed # {}
    /\ \A i \in 1..4 : classified_portfolio[i].action # prior_positions[i].action

(***************************************************************************)
(* C17: when any ticker of the batch has fewer than 30 bars,               *)
(* add_equity_bars_returns_and_realized_volatility_columns raises a        *)
(* ValueError that names exactly the tickers with too few bars and returns *)
(* rows for no ticker, also not for those with enough bars; a batch whose  *)
(* tickers all have 30 bars or more is not rejected and keeps every bar.   *)
(***************************************************************************)
C17_BarsOf(t) == Len(SelectSeq(prior_bars, LAMBDA b : b.ticker = t))

C17_Short ==
    { t \in BarTickers :
        C17_BarsOf(t) > 0 /\ C17_BarsOf(t) < minimum_bars_per_ticker_required }

C17_ShortTickerRejectsBatch ==
    bars_pc = "done" =>
        IF C17_Short # {}
        THEN /\ bars_with_returns.raised = "ValueError"
             /\ bars_with_returns.insufficient_list = C17_Short
             /\ bars_with_returns.rows = <<>>
        ELSE /\ bars_with_returns.raised = None
             /\ Len(bars_with_returns.rows) = Len(prior_bars)

\* one ticker has 29 bars, another has 31, and the batch was rejected
C17_Witness ==
    /\ bars_pc = "done"
    /\ \E t, u \in BarTickers :
          /\ C17_BarsOf(t) = minimum_bars_per_ticker_required - 1
          /\ C17_BarsOf(u) > minimum_bars_per_ticker_required
    /\ bars_with_returns.raised = "ValueError"
    /\ bars_with_returns.rows = <<>>

(***************************************************************************)
(* C19: add_predictions_zscore_ranked_columns returns the input rows, each *)
(* exactly once, ordered by composite_score descending and, where the      *)
(* composite scores are equal, by inter_quartile_range ascending.          *)
(***************************************************************************)
C19_Quantiles(row) ==
    [ticker |-> row.ticker, quantile_10 |-> row.quantile_10,
     quantile_50 |-> row.quantile_50, quantile_90 |-> row.quantile_90]

C19_IsPermutation ==
    /\ Len(ranked_predictions) = Len(raw_predictions)
    /\ \E f \in [1..Len(raw_predictions) -> 1..Len(raw_predictions)] :
          /\ \A i, j \in 1..Len(raw_predictions) : f[i] = f[j] => i = j
          /\ \A i \in 1..Len(raw_predictions) :
                C19_Quantiles(ranked_predictions[f[i]]) = raw_predictions[i]

C19_Score(row) == row.composite_score.numerator

C19_IsOrdered ==
    \A i \in 1..(Len(ranked_predictions) - 1) :
        LET a == ranked_predictions[i]
            b == ranked_predictions[i + 1]
        IN  /\ RatLeq(C19_Score(b), C19_Score(a))
            /\ C19_Score(a) = C19_Score(b) =>
                   a.inter_quartile_range <= b.inter_quartile_range

C19_RankedIsSortedPermutation ==
    ranking_pc = "done" => C19_IsPermutation /\ C19_IsOrdered

\* a batch that came in another order and holds a tie of the composite
\* score between a narrow and a wide range
C19_Witness ==
    /\ ranking_pc = "done"
    /\ \E i \in 1..Len(ranked_predictions) :
          ranked_predictions[i].ticker # i
    /\ \E i \in 1..(Len(ranked_predictions) - 1) :
          /\ C19_Score(ranked_predictions[i]) =
                C19_Score(ranked_predictions[i + 1])
          /\ ranked_predictions[i].inter_quartile_range <
                ranked_predictions[i + 1].inter_quartile_range

(***************************************************************************)
(* C20: after an open that the broker accepted, the remaining buying power *)
(* is the buying_power that get_account reports; when get_account fails it *)
(* is the previous remaining buying power less the dollar_amount of the    *)
(* position; in both cases the instruction is reported with status         *)
(* success.                                                                *)
(***************************************************************************)
C20_OpenAccepted ==
    /\ Len(open_results') = Len(open_results) + 1
    /\ broker_answer'.call = "open"
    /\ broker_answer'.outcome.price > 0
    /\ broker_answer'.outcome.submit.kind = "ok"

C20_RefreshedOrEstimated ==
    LET position == open_positions[Len(open_results')]
        refresh == broker_answer'.outcome.refresh
    IN  /\ open_results'[Len(open_results')].status = "success"
        /\ open_results'[Len(open_results')].ticker = position.ticker
        /\ remaining_buying_power' =
              IF refresh >= 0 THEN refresh
              ELSE remaining_buying_power - position.dollar_amount

C20_BuyingPowerAfterOpen ==
    [][C20_OpenAccepted => C20_RefreshedOrEstimated]_vars

\* an accepted open after which get_account failed, and the result is a
\* success
C20_Witness ==
    /\ pc = "opening"
    /\ open_results # <<>>
    /\ broker_answer.call = "open"
    /\ broker_answer.outcome.submit.kind = "ok"
    /\ broker_answer.outcome.refresh = -1
    /\ open_results[Len(open_results)].status = "success"
    /\ remaining_buying_power < account.buying_power

(***************************************************************************)
(* C21: an open that the broker rejects for insufficient buying power or   *)
(* because the asset cannot be sold short is reported with status skipped  *)
(* and the reason insufficient_buying_power or not_shortable, never with   *)
(* status failed; the remaining buying power stays as it was; the cycle    *)
(* goes on with the open instructions after it and answers only when every *)
(* open instruction has a result.                                          *)
(***************************************************************************)
\* the rejections of submit_order, as the broker words them
C21_InsufficientTexts ==
    { <<"Insufficient", "Buying", "Power">>, <<"BUYING_POWER", "exceeded">> }

C21_NotShortableTexts ==
    { <<"asset", "cannot", "be", "sold", "short">>,
      <<"asset", "is", "Not", "Shortable">> }

C21_OpenRejected ==
    /\ Len(open_results') = Len(open_results) + 1
    /\ broker_answer'.call = "open"
    /\ broker_answer'.outcome.price > 0
    /\ broker_answer'.outcome.submit.kind = "APIError"
    /\ broker_answer'.outcome.submit.text
          \in C21_InsufficientTexts \cup C21_NotShortableTexts

C21_SkippedAndContinues ==
    LET result == open_results'[Len(open_results')]
        text == broker_answer'.outcome.submit.text
    IN  /\ result.status = "skipped"
        /\ result.ticker = open_positions[Len(open_results')].ticker
        /\ result.reason =
              IF text \in C21_InsufficientTexts
              THEN "insufficient_buying_power" ELSE "not_shortable"
        /\ remaining_buying_power' = remaining_buying_power
        /\ pc' = "opening"
        /\ open_positions' = open_positions

C21_RejectedOpenIsSkipped ==
    [][ /\ C21_OpenRejected => C21_SkippedAndContinues
        /\ (pc = "opening" /\ pc' # "opening") =>
              Len(open_results) = Len(open_positions) ]_vars

\* the first open was rejected as not shortable and the second, attempted
\* after it, was accepted
C21_Witness ==
    /\ pc = "done"
    /\ Len(open_results) = 2
    /\ open_results[1].status = "skipped"
    /\ open_results[1].reason = "not_shortable"
    /\ open_results[2].status = "success"
    /\ Len(SelectSeq(broker_calls, LAMBDA c : c.op = "open")) = 2

(***************************************************************************)
(* C22: in create_optimal_portfolio the capital for the new positions of a *)
(* side is max(0, maximum_capital / 2 - maintained capital of the side +   *)
(* closed capital of the side) and every new position of the side gets an  *)
(* equal share of it; the number of new positions wanted on a side is      *)
(* max(0, 10 - maintained positions of the side), which is what the side   *)
(* gets when the candidates suffice and is never exceeded; a side that     *)
(* gets no new position has the per-position amount 0.                     *)
(***************************************************************************)
C22_Prior(side, action) ==
    SelectSeq(prior_portfolio, LAMBDA r : r.side = side /\ r.action = action)

C22_SideCapital(side) ==
    RatMax(Zero,
           RatAdd(RatSub(Rat(maximum_capital, 2),
                         RatSum(C22_Prior(side, "MAINTAIN_POSITION"))),
                  RatSum(C22_Prior(side, "CLOSE_POSITION"))))

C22_Wanted(side) ==
    Max(0, 10 - Len(C22_Prior(side, "MAINTAIN_POSITION")))

C22_New(side) ==
    SelectSeq(constructed_portfolio.portfolio,
              LAMBDA r : r.side = side /\ r.action = "OPEN_POSITION")

C22_CandidatesSuffice == Len(C9_NotExcluded) >= 20

C22_SideCapitalIsSharedEqually ==
    (constructor_pc = "done" /\ constructed_portfolio.raised = None) =>
        \A side \in {"LONG", "SHORT"} :
            /\ Len(C22_New(side)) <= C22_Wanted(side)
            /\ C22_CandidatesSuffice => Len(C22_New(side)) = C22_Wanted(side)
            /\ \A i \in 1..Len(C22_New(side)) :
                  C22_New(side)[i].dollar_amount =
                      RatDiv(C22_SideCapital(side), Len(C22_New(side)))
            /\ Len(C22_New(side)) = 0 =>
                  dollar_amount_per(
                      available_side_capital(prior_portfolio,
                                             maximum_capital, side),
                      IF side = "LONG"
                      THEN maximum_long_candidates(current_predictions,
                                                   prior_portfolio)
                      ELSE maximum_short_candidates(current_predictions,
                                                    prior_portfolio)) = Zero

\* a LONG side with a maintained and a closed position of 300 each, so the
\* capital of its new positions is maximum_capital / 2; nine new LONG
\* positions share it
C22_Witness ==
    /\ constructor_pc = "done"
    /\ constructed_portfolio.raised = None
    /\ Len(C22_Prior("LONG", "MAINTAIN_POSITION")) = 1
    /\ Len(C22_Prior("LONG", "CLOSE_POSITION")) = 1
    /\ Len(C22_New("LONG")) = 9
    /\ C22_New("LONG")[1].dollar_amount = RatDiv(Rat(maximum_capital, 2), 9)

(***************************************************************************)
(* C23: across cycles a position follows the state machine.  Every row of  *)
(* the new snapshot is either a position of the prior portfolio that was   *)
(* classified MAINTAIN_POSITION, with its ticker, side, dollar_amount and  *)
(* timestamp unchanged, or a new position with action OPEN_POSITION and    *)
(* the timestamp of the current cycle.  Every maintained position is in    *)
(* the new snapshot once; a position classified CLOSE_POSITION, PDT_LOCKED *)
(* or UNSPECIFIED is not carried over, and the ticker of a closed position *)
(* is not in the new snapshot at all.                                      *)
(***************************************************************************)
C23_Snapshot == constructed_portfolio.portfolio

C23_SamePosition(row, prior) ==
    /\ row.ticker = prior.ticker
    /\ row.side = prior.side
    /\ row.dollar_amount = prior.dollar_amount
    /\ row.timestamp = prior.timestamp

C23_IsNew(row) ==
    row.action = "OPEN_POSITION" /\ row.timestamp = current_timestamp

C24_SideTotal(side) ==
    RatSum(SelectSeq(constructed_portfolio.portfolio,
                     LAMBDA r : r.side = side))

C24_CapitalCeiling ==
    (constructor_pc = "done" /\ constructed_portfolio.raised = None) =>
        /\ \A side \in {"LONG", "SHORT"} :
              RatLeq(C24_SideTotal(side), Rat(maximum_capital, 2))
        /\ RatLeq(RatSum(constructed_portfolio.portfolio),
                  Rat(maximum_capital, 1))

(***************************************************************************)
(* C28: for predictions with distinct tickers and any number of available  *)
(* candidates, the new LONG and the new SHORT positions of                 *)
(* create_optimal_portfolio together are no more than the available        *)
(* candidates, no ticker is opened both LONG and SHORT, and no ticker is   *)
(* opened twice.                                                           *)
(***************************************************************************)
C28_Available ==
    SelectSeq(current_predictions,
              LAMBDA p : /\ p.inter_quartile_range <= UNCERTAINTY_THRESHOLD
                         /\ \A j \in 1..Len(prior_portfolio) :
                               prior_portfolio[j].ticker = p.ticker =>
                                   prior_portfolio[j].action
                                       \notin {"CLOSE_POSITION",
                                               "MAINTAIN_POSITION"})

C28_NewPositions ==
    SelectSeq(constructed_portfolio.portfolio,
              LAMBDA r : r.action = "OPEN_POSITION")

C28_NewSidesAreDisjoint ==
    constructor_pc = "done" =>
        /\ Len(C28_NewPositions) <= Len(C28_Available)
        /\ \A i, j \in 1..Len(C28_NewPositions) :
              C28_NewPositions[i].ticker = C28_NewPositions[j].ticker => i = j

\* seven candidates: three are opened LONG and four SHORT
C28_Witness ==
    /\ constructor_pc = "done"
    /\ Len(C28_Available) = 7
    /\ Len(C22_New("LONG")) = 3
    /\ Len(C22_New("SHORT")) = 4

(***************************************************************************)
(* C26 as claimed: for every marketplace state with a bot, also when every *)
(* score is zero and when the pool is smaller than the number of bots, the *)
(* budgets that allocate_budgets returns sum to exactly total_budget_pool. *)
(***************************************************************************)
C26_BudgetsSumToPool ==
    (budget_pc = "done" /\ marketplace_state.bots # <<>>) =>
        /\ budget_allocations.raised = None
        /\ RatTotal([b \in 1..Len(budget_allocations.budgets) |->
                       Rat(budget_allocations.budgets[b], 1)]).num
              = marketplace_state.total_budget_pool

(***************************************************************************)
(* C27 as claimed: after any sequence of record_event, load_state,         *)
(* save_state and reset_state, what load_state returns is the state        *)
(* computed from the events that are in the log.                           *)
(***************************************************************************)
C27_LoadedStateIsCurrent ==
    last_call = "load_state" =>
        loaded_state =
            <<compute_state_from_events(load_events(event_files))>>

(***************************************************************************)
(* C25: no close and no open is sent to the broker in a cycle unless the   *)
(* snapshot of that cycle was stored first: when the broker has been       *)
(* called, the datamanager holds the portfolio of the cycle, stored once;  *)
(* a cycle goes on after get_optimal_portfolio only when the POST was      *)
(* answered with success; a cycle whose portfolio was constructed and      *)
(* whose POST failed ends there with 500 and without a call of the broker. *)
(***************************************************************************)
C25_SnapshotStored ==
    /\ constructed' = "portfolio"
    /\ snapshot_posts' = 1
    /\ datamanager' = optimal_portfolio'
    /\ optimal_portfolio' # <<>>

C25_PostFailed ==
    /\ pc = "get_optimal"
    /\ constructed' = "portfolio"
    /\ pc' # "get_positions"

C25_SnapshotBeforeOrders ==
    [][ /\ broker_calls' # <<>> => C25_SnapshotStored
        /\ (pc = "get_optimal" /\ pc' = "get_positions") =>
              C25_SnapshotStored /\ broker_calls' = <<>>
        /\ C25_PostFailed =>
              /\ pc' = "done"
              /\ response'.status_code = HTTP_500_INTERNAL_SERVER_ERROR
              /\ broker_calls' = <<>>
              /\ close_results' = <<>>
              /\ open_results' = <<>> ]_vars

\* the first order of a cycle has been sent, and the snapshot is stored
C25_Witness ==
    /\ Len(broker_calls) = 1
    /\ snapshot_posts = 1
    /\ datamanager = optimal_portfolio
    /\ optimal_portfolio # <<>>

(***************************************************************************)
(* C29: in a cycle that starts with a non-negative buying power and in     *)
(* which every refresh of the buying power fails, the remaining buying     *)
(* power is after every open instruction the initial buying power less the *)
(* dollar amounts of the opens reported with status success; it is never   *)
(* negative, so these amounts sum to at most the initial buying power.     *)
(* Stated as an induction over the open instructions: the opening starts   *)
(* with the buying power of the account and no result, and a step without  *)
(* a successful refresh keeps the relation.                                *)
(***************************************************************************)
C29_Spent(results) ==
    LET Amount(i) ==
            IF results[i].status = "success" THEN results[i].dollar_amount
            ELSE 0
    IN  RatTotal([i \in 1..Len(results) |-> Rat(Amount(i), 1)]).num

C29_Estimated ==
    remaining_buying_power = account.buying_power - C29_Spent(open_results)

C29_OpenWithoutRefresh ==
    /\ pc = "opening"
    /\ Len(open_results') = Len(open_results) + 1
    /\ ~( /\ broker_answer'.call = "open"
          /\ broker_answer'.outcome.refresh >= 0 )

C29_EstimateNeverNegative ==
    [][ /\ (pc # "opening" /\ pc' = "opening") =>
              /\ open_results' = <<>>
              /\ remaining_buying_power' = account'.buying_power
        /\ ( /\ account.buying_power >= 0
             /\ C29_Estimated
             /\ C29_OpenWithoutRefresh ) =>
              /\ account' = account
              /\ remaining_buying_power' =
                    account.buying_power - C29_Spent(open_results')
              /\ remaining_buying_power' >= 0
              /\ C29_Spent(open_results') <= account.buying_power ]_vars

\* two opens were accepted, neither refresh answered, and the estimate has
\* used the buying power up
C29_Witness ==
    /\ pc = "opening"
    /\ Len(open_results) = 2
    /\ open_results[1].status = "success"
    /\ open_results[2].status = "success"
    /\ broker_answer.call = "open"
    /\ broker_answer.outcome.refresh = -1
    /\ account.buying_power = 2
    /\ remaining_buying_power = 0

\* the rows whose action the rebalancing step changed
C30_Changed ==
    { j \in 1..Len(classified_rows) :
        classified_portfolio[j].action # classified_rows[j].action }

\* C30: the rebalancing step changes the action of at most N positions, N
\* the close imbalance, each an eligible position of the side with fewer
\* closes that goes from MAINTAIN_POSITION or UNSPECIFIED to CLOSE_POSITION;
\* every other row keeps its action, also when a ticker occurs in more than
\* one position of the prior portfolio.
C30_RebalancingOnlyClosesDeficientSide ==
    classifier_pc = "done"
    => /\ Len(classified_portfolio) = Len(classified_rows)
       /\ Cardinality(C30_Changed) <= C16_Missing
       /\ \A j \in C30_Changed :
             /\ classified_rows[j].side = C16_DeficientSide
             /\ classified_rows[j].action
                   \in {"MAINTAIN_POSITION", "UNSPECIFIED"}
             /\ classified_portfolio[j].action = "CLOSE_POSITION"

====
